---- MODULE Spec2Model ----
(***************************************************************************)
(* Model of the ETL normalisation pipeline of the disease dashboard:       *)
(* the slug normaliser, the geography classifier, the MMWR week converter, *)
(* the NNDSS label parser, the tracker and NNDSS transformers, the load()  *)
(* template of DataSourceTransformer, the DiseaseDatabase that loads the   *)
(* sources into DuckDB and answers queries, and the Basic Auth middleware. *)
(*                                                                         *)
(* Text is modelled character by character: a string is a tuple of         *)
(* one-character strings.  A cell of a data frame is a record              *)
(* [t, v]: t = "na" for None/NaN/NaT, "str" for text, "int" for integers   *)
(* and "date" for dates (v = proleptic Gregorian ordinal, as               *)
(* datetime.toordinal()).                                                  *)
(***************************************************************************)
EXTENDS Integers, Sequences, FiniteSets, TLC

VARIABLES
    arg,          \* argument of the pure function under call
    ret,          \* what the last call returned
    trackerFiles, \* CSV files under <tracker root>/data/states/<STATE>/
    nndssFiles,   \* CSV files under <nndss root>/
    sourceDirs,   \* the source directories that exist
    result,       \* what the last transform()/load() call returned or raised
    db,           \* the DiseaseDatabase object and its DuckDB connection
    threads,      \* per thread: the call it is in, its position and its locals
    http          \* the middleware: its config, the request and the response

vars == <<arg, ret, trackerFiles, nndssFiles, sourceDirs, result, db, threads, http>>

----------------------------------------------------------------------------
(* Cells *)

Na == [t |-> "na", v |-> <<>>]

Str(s) == [t |-> "str", v |-> s]

Num(n) == [t |-> "int", v |-> n]

Date(d) == [t |-> "date", v |-> d]

\* pd.isna / pd.notna
IsNa(c) == c.t = "na"

----------------------------------------------------------------------------
(* Characters and strings *)

\* the characters of the modelled text, in code point order
AsciiOrder ==
    <<" ", "'", "(", ")", ",", "-", ".", "/", "0", "1", "2", "3", "4", "5", "6", "7", "8", "9", "<", "A", "B", "C", "D", "E", "F", "G", "H", "I", "J", "K", "L", "M", "N", "O", "P", "Q", "R", "S", "T", "U", "V", "W", "X", "Y", "Z", "_", "a", "b", "c", "d", "e", "f", "g", "h", "i", "j", "k", "l", "m", "n", "o", "p", "q", "r", "s", "t", "u", "v", "w", "x", "y", "z">>

UpperLetters ==
    <<"A", "B", "C", "D", "E", "F", "G", "H", "I", "J", "K", "L", "M", "N", "O", "P", "Q", "R", "S", "T", "U", "V", "W", "X", "Y", "Z">>

LowerLetters ==
    <<"a", "b", "c", "d", "e", "f", "g", "h", "i", "j", "k", "l", "m", "n", "o", "p", "q", "r", "s", "t", "u", "v", "w", "x", "y", "z">>

Range(f) == {f[i] : i \in DOMAIN f}

Chars == Range(AsciiOrder)

UpperChars == Range(UpperLetters)

LowerChars == Range(LowerLetters)

DigitChars == {"0", "1", "2", "3", "4", "5", "6", "7", "8", "9"}

\* regex \w (ASCII part): letters, digits and the underscore
WordChars == UpperChars \cup LowerChars \cup DigitChars \cup {"_"}

\* regex \s and the characters str.strip() removes
SpaceChars == {" "}

LowerOf ==
    [c \in Chars |->
        IF c \in UpperChars
        THEN LowerLetters[CHOOSE i \in DOMAIN UpperLetters : UpperLetters[i] = c]
        ELSE c]

UpperOf ==
    [c \in Chars |->
        IF c \in LowerChars
        THEN UpperLetters[CHOOSE i \in DOMAIN LowerLetters : LowerLetters[i] = c]
        ELSE c]

lower_ch(c) == LowerOf[c]

upper_ch(c) == UpperOf[c]

\* str.lower()
str_lower(s) == [i \in 1..Len(s) |-> lower_ch(s[i])]

\* str.upper()
str_upper(s) == [i \in 1..Len(s) |-> upper_ch(s[i])]

\* str.strip(chars): drop the leading and trailing characters that are in C
str_strip(s, C) ==
    LET keep == {i \in 1..Len(s) : s[i] \notin C}
        first == CHOOSE i \in keep : \A j \in keep : i <= j
        last == CHOOSE i \in keep : \A j \in keep : j <= i
    IN  IF keep = {} THEN <<>> ELSE SubSeq(s, first, last)

\* str.rstrip(chars)
str_rstrip(s, C) ==
    LET keep == {i \in 1..Len(s) : s[i] \notin C}
        last == CHOOSE i \in keep : \A j \in keep : j <= i
    IN  IF keep = {} THEN <<>> ELSE SubSeq(s, 1, last)

\* re.sub(r"[^...]", "", s): keep the characters marked in m
KeepMarked(s, m) ==
    LET t == [i \in 1..Len(s) |-> IF m[i] THEN s[i] ELSE ""]
    IN  SelectSeq(t, LAMBDA x : x # "")

\* re.sub(r"[...]+", r, s): every maximal run of marked characters becomes r
ReplaceRuns(s, m, r) ==
    LET t == [i \in 1..Len(s) |->
                 IF ~m[i] THEN s[i]
                 ELSE IF i = 1 \/ ~m[i - 1] THEN r
                 ELSE ""]
    IN  SelectSeq(t, LAMBDA x : x # "")

\* str.startswith / str.endswith
StartsWith(s, p) == Len(s) >= Len(p) /\ SubSeq(s, 1, Len(p)) = p

EndsWith(s, p) == Len(s) >= Len(p) /\ SubSeq(s, Len(s) - Len(p) + 1, Len(s)) = p

\* "c in s"
Contains(s, c) == \E i \in 1..Len(s) : s[i] = c

----------------------------------------------------------------------------
(* app/etl/normalizers/slugify.py *)

\* the characters of s that are in C, and those that are not
InClass(s, C) == [i \in 1..Len(s) |-> s[i] \in C]

NotInClass(s, C) == [i \in 1..Len(s) |-> s[i] \notin C]

\* re.sub(r"[^\w\s-]", "", value)
strip_non_word(s) == KeepMarked(s, InClass(s, WordChars \cup SpaceChars \cup {"-"}))

\* re.sub(r"[\s_]+", "-", value)
spaces_to_hyphen(s) == ReplaceRuns(s, InClass(s, SpaceChars \cup {"_"}), "-")

\* re.sub(r"-+", "-", value)
collapse_hyphens(s) == ReplaceRuns(s, InClass(s, {"-"}), "-")

\* return value if value else None
StrOrNone(s) == IF s = <<>> THEN Na ELSE Str(s)

slugify_no_strip(value) ==
    IF IsNa(value) THEN Na
    ELSE StrOrNone(spaces_to_hyphen(strip_non_word(
             str_strip(str_lower(value.v), SpaceChars))))

slugify(value) ==
    IF IsNa(value) THEN Na
    ELSE StrOrNone(str_strip(collapse_hyphens(spaces_to_hyphen(strip_non_word(
             str_strip(str_lower(value.v), SpaceChars)))), {"-"}))

----------------------------------------------------------------------------
(* app/utils.py *)

\* slug.replace("'", "")
strip_apostrophes(s) == KeepMarked(s, NotInClass(s, {"'"}))

\* re.sub(r"[^a-z0-9]+", "-", slug)
non_alnum_to_hyphen(s) == ReplaceRuns(s, NotInClass(s, LowerChars \cup DigitChars), "-")

\* unicodedata.normalize("NFC", .) is the identity on the ASCII text modelled
to_disease_slug(name) ==
    collapse_hyphens(str_strip(
        non_alnum_to_hyphen(strip_apostrophes(str_lower(name))), {"-"}))

----------------------------------------------------------------------------
(* app/etl/normalizers/geo.py *)

REGIONS ==
    { <<"U", "S", " ", "R", "E", "S", "I", "D", "E", "N", "T", "S">>, <<"N", "O", "N", "-", "U", "S", " ", "R", "E", "S", "I", "D", "E", "N", "T", "S">>, <<"T", "O", "T", "A", "L">>,
      <<"N", "E", "W", " ", "E", "N", "G", "L", "A", "N", "D">>, <<"M", "I", "D", "D", "L", "E", " ", "A", "T", "L", "A", "N", "T", "I", "C">>,
      <<"E", "A", "S", "T", " ", "N", "O", "R", "T", "H", " ", "C", "E", "N", "T", "R", "A", "L">>, <<"W", "E", "S", "T", " ", "N", "O", "R", "T", "H", " ", "C", "E", "N", "T", "R", "A", "L">>,
      <<"S", "O", "U", "T", "H", " ", "A", "T", "L", "A", "N", "T", "I", "C">>, <<"E", "A", "S", "T", " ", "S", "O", "U", "T", "H", " ", "C", "E", "N", "T", "R", "A", "L">>, <<"W", "E", "S", "T", " ", "S", "O", "U", "T", "H", " ", "C", "E", "N", "T", "R", "A", "L">>,
      <<"M", "O", "U", "N", "T", "A", "I", "N">>, <<"P", "A", "C", "I", "F", "I", "C">>, <<"U", "S", " ", "T", "E", "R", "R", "I", "T", "O", "R", "I", "E", "S">> }

NATIONAL_AREAS == { <<"U", "S", " ", "R", "E", "S", "I", "D", "E", "N", "T", "S">>, <<"N", "O", "N", "-", "U", "S", " ", "R", "E", "S", "I", "D", "E", "N", "T", "S">>, <<"T", "O", "T", "A", "L">> }

\* str(NaN).upper() is "NAN", which is in no set: a missing area is a state
classify_geo_unit(reporting_area) ==
    IF IsNa(reporting_area) \/ reporting_area.v = <<>> THEN <<"s", "t", "a", "t", "e">>
    ELSE LET area_upper == str_upper(reporting_area.v)
         IN  IF area_upper \in NATIONAL_AREAS THEN <<"n", "a", "t", "i", "o", "n", "a", "l">>
             ELSE IF area_upper \in REGIONS THEN <<"r", "e", "g", "i", "o", "n">>
             ELSE <<"s", "t", "a", "t", "e">>
----------------------------------------------------------------------------
(* app/etl/transformers/nndss.py: tables *)

NNDSS_TO_TRACKER_SLUG_same_names ==
    { <<<<"m", "e", "a", "s", "l", "e", "s">>, <<"m", "e", "a", "s", "l", "e", "s">>>>, <<<<"p", "e", "r", "t", "u", "s", "s", "i", "s">>, <<"p", "e", "r", "t", "u", "s", "s", "i", "s">>>> }

NNDSS_TO_TRACKER_SLUG ==
    { <<<<"m", "e", "n", "i", "n", "g", "o", "c", "o", "c", "c", "a", "l", "-", "d", "i", "s", "e", "a", "s", "e">>, <<"m", "e", "n", "i", "n", "g", "o", "c", "o", "c", "c", "u", "s">>>>,
      <<<<"m", "e", "a", "s", "l", "e", "s">>, <<"m", "e", "a", "s", "l", "e", "s">>>>,
      <<<<"p", "e", "r", "t", "u", "s", "s", "i", "s">>, <<"p", "e", "r", "t", "u", "s", "s", "i", "s">>>> }

SUBTYPE_PREFIXES == << <<"s", "e", "r", "o", "g", "r", "o", "u", "p", " ">>, <<"s", "e", "r", "o", "g", "r", "o", "u", "p", "s", " ">> >>

AGGREGATE_SUBTYPES ==
    { <<"a", "l", "l", " ", "s", "e", "r", "o", "g", "r", "o", "u", "p", "s">>, <<"t", "o", "t", "a", "l">>, <<"a", "l", "l">>, <<"i", "m", "p", "o", "r", "t", "e", "d">>, <<"i", "n", "d", "i", "g", "e", "n", "o", "u", "s">> }

NNDSS_SUBTYPE_NORMALIZATION ==
    { <<<<"o", "t", "h", "e", "r">>, <<"u", "n", "s", "p", "e", "c", "i", "f", "i", "e", "d">>>>, <<<<"u", "n", "k", "n", "o", "w", "n">>, <<"u", "n", "k", "n", "o", "w", "n">>>> }

\* the entries of STATE_CODES for the reporting areas the model feeds in
STATE_CODES ==
    { <<<<"M", "A", "S", "S", "A", "C", "H", "U", "S", "E", "T", "T", "S">>, <<"M", "A">>>>, <<<<"C", "A", "L", "I", "F", "O", "R", "N", "I", "A">>, <<"C", "A">>>>,
      <<<<"N", "E", "W", " ", "Y", "O", "R", "K">>, <<"N", "Y">>>>, <<<<"I", "D", "A", "H", "O">>, <<"I", "D">>>> }

\* dict.get(key, default) on a table of <<key, value>> pairs
DictGet(table, key, default) ==
    IF \E e \in table : e[1] = key
    THEN (CHOOSE e \in table : e[1] = key)[2]
    ELSE default

----------------------------------------------------------------------------
(* app/etl/transformers/nndss.py: MMWRWeekConverter *)

\* datetime(year, 1, 1).toordinal()
Jan1Ordinal(year) ==
    LET y == year - 1
    IN  365 * y + (y \div 4) - (y \div 100) + (y \div 400) + 1

\* datetime.weekday(): Monday = 0 ... Sunday = 6; ordinal 1 is a Monday
weekday(ordinal) == (ordinal + 6) % 7

get_mmwr_week_start_no_sunday(year, week) ==
    LET jan1 == Jan1Ordinal(year)
        week1_start == IF weekday(jan1) <= 3 THEN jan1 ELSE jan1 + 7
    IN  week1_start + 7 * (week - 1)

get_mmwr_week_start(year, week) ==
    LET jan1 == Jan1Ordinal(year)
        days_until_sunday == (6 - weekday(jan1)) % 7
        first_sunday == jan1 + days_until_sunday
        week1_start == IF weekday(jan1) <= 3
                       THEN first_sunday
                       ELSE first_sunday + 7
    IN  week1_start + 7 * (week - 1)

get_mmwr_week_end(year, week) == get_mmwr_week_start(year, week) + 6

----------------------------------------------------------------------------
(* app/etl/transformers/nndss.py: NNDSSTransformer._parse_nndss_label *)

\* index of the first "," of s
FirstComma(s) == CHOOSE i \in 1..Len(s) : s[i] = "," /\ \A j \in 1..(i - 1) : s[j] # ","

\* the loop over SUBTYPE_PREFIXES: the first prefix that matches is cut off
StripSubtypePrefix(subtype_raw) ==
    LET subtype_lower == str_lower(subtype_raw)
        hits == {k \in DOMAIN SUBTYPE_PREFIXES :
                    StartsWith(subtype_lower, SUBTYPE_PREFIXES[k])}
        k0 == CHOOSE k \in hits : \A j \in hits : k <= j
    IN  IF hits = {} THEN subtype_raw
        ELSE SubSeq(subtype_raw, Len(SUBTYPE_PREFIXES[k0]) + 1, Len(subtype_raw))

\* re.sub(r"\s*serogroups?\s*$", "", s, flags=re.IGNORECASE).strip()
StripSerogroupSuffix(s) ==
    LET t == str_rstrip(s, SpaceChars)
        lt == str_lower(t)
        cut == IF EndsWith(lt, <<"s", "e", "r", "o", "g", "r", "o", "u", "p", "s">>) THEN SubSeq(t, 1, Len(t) - 10)
               ELSE IF EndsWith(lt, <<"s", "e", "r", "o", "g", "r", "o", "u", "p">>) THEN SubSeq(t, 1, Len(t) - 9)
               ELSE s
    IN  str_strip(cut, SpaceChars)

\* SUBTYPE_NORMALIZATION.get(subtype_raw.lower(), subtype_raw), then
\* "subtype_raw if subtype_raw else None"
normalized_subtype(subtype_raw) ==
    StrOrNone(DictGet(NNDSS_SUBTYPE_NORMALIZATION, str_lower(subtype_raw), subtype_raw))

\* the "if subtype_raw:" block and the returned subtype
label_subtype(subtype_raw) ==
    IF subtype_raw = <<>> THEN Na
    ELSE IF str_lower(subtype_raw) \in AGGREGATE_SUBTYPES THEN Na
    ELSE normalized_subtype(StripSerogroupSuffix(StripSubtypePrefix(subtype_raw)))

\* label.split(",", 1) of a stripped label
split_label(label) ==
    IF ~Contains(label, ",") THEN <<Str(label), Na>>
    ELSE << Str(str_strip(SubSeq(label, 1, FirstComma(label) - 1), SpaceChars)),
            label_subtype(str_strip(SubSeq(label, FirstComma(label) + 1, Len(label)),
                                    SpaceChars)) >>

\* returns <<base_name, subtype>>, both cells
parse_nndss_label(label) ==
    IF IsNa(label) THEN <<Na, Na>>
    ELSE split_label(str_strip(label.v, SpaceChars))
----------------------------------------------------------------------------
(* Data frames: [cols |-> set of column names, rows |-> sequence of rows],  *)
(* a row being a function from the frame's columns to cells.                *)

\* settings.data_directory, the tracker's <base_path>/data/states, and
\* settings.nndss_data_directory
DATA_DIRECTORY == "us_disease_tracker_data"

TRACKER_DATA_PATH == "us_disease_tracker_data/data/states"

NNDSS_DATA_DIRECTORY == "nndss_data"

\* self.fs.exists(path), Path.exists()
fs_exists(path) == path \in sourceDirs

EmptyFrame == [cols |-> {}, rows |-> <<>>]

\* DataFrame.empty
FrameEmpty(df) == df.cols = {} \/ df.rows = <<>>

\* df[col] = f(row) for every row
WithColumn(df, col, f(_)) ==
    [cols |-> df.cols \cup {col},
     rows |-> [i \in 1..Len(df.rows) |-> (col :> f(df.rows[i])) @@ df.rows[i]]]

\* df.get(col, default) seen from one row
RowGet(df, row, col, default) == IF col \in df.cols THEN row[col] ELSE default

----------------------------------------------------------------------------
(* app/etl/schema.py *)

REQUIRED_COLUMNS ==
    << "report_period_start", "report_period_end", "date_type", "time_unit",
       "disease_name", "disease_slug", "disease_subtype",
       "reporting_jurisdiction", "state", "geo_name", "geo_unit", "age_group",
       "confirmation_status", "outcome", "count", "data_source",
       "original_disease_name" >>

NULLABLE_COLUMNS == {"disease_subtype", "age_group", "confirmation_status", "count"}

REQUIRED_NON_NULL == Range(REQUIRED_COLUMNS) \ NULLABLE_COLUMNS

\* TRUE iff validate_dataframe returns a non-empty list of errors
validate_dataframe_columns_only(df) ==
    Range(REQUIRED_COLUMNS) \ df.cols # {}

validate_dataframe(df) ==
    \/ Range(REQUIRED_COLUMNS) \ df.cols # {}
    \/ \E col \in REQUIRED_NON_NULL :
           col \in df.cols /\ \E i \in 1..Len(df.rows) : IsNa(df.rows[i][col])

----------------------------------------------------------------------------
(* app/etl/normalizers/disease_names.py *)

TRACKER_TO_NNDSS ==
    { <<<<"m", "e", "a", "s", "l", "e", "s">>, <<"M", "e", "a", "s", "l", "e", "s">>>>,
      <<<<"m", "e", "n", "i", "n", "g", "o", "c", "o", "c", "c", "u", "s">>, <<"M", "e", "n", "i", "n", "g", "o", "c", "o", "c", "c", "a", "l", " ", "d", "i", "s", "e", "a", "s", "e">>>>,
      <<<<"p", "e", "r", "t", "u", "s", "s", "i", "s">>, <<"P", "e", "r", "t", "u", "s", "s", "i", "s">>>> }

DISEASE_ALIASES ==
    { <<<<"H", "a", "n", "s", "e", "n", "'", "s", " ", "D", "i", "s", "e", "a", "s", "e">>, <<"L", "e", "p", "r", "o", "s", "y", " ", "(", "H", "a", "n", "s", "e", "n", "'", "s", " ", "D", "i", "s", "e", "a", "s", "e", ")">>>> }

\* Series.replace(DISEASE_ALIASES): exact match of the whole value
apply_disease_aliases_every_name(df) ==
    WithColumn(
        WithColumn(df, "disease_name",
            LAMBDA row : IF IsNa(row["disease_name"]) THEN row["disease_name"]
                         ELSE Str(DictGet(DISEASE_ALIASES, row["disease_name"].v,
                                          row["disease_name"].v))),
        "original_disease_name",
        LAMBDA row : IF IsNa(row["original_disease_name"]) THEN row["original_disease_name"]
                     ELSE Str(DictGet(DISEASE_ALIASES, row["original_disease_name"].v,
                                      row["original_disease_name"].v)))

apply_disease_aliases(df) ==
    WithColumn(df, "disease_name",
        LAMBDA row : IF IsNa(row["disease_name"]) THEN row["disease_name"]
                     ELSE Str(DictGet(DISEASE_ALIASES, row["disease_name"].v,
                                      row["disease_name"].v)))

----------------------------------------------------------------------------
(* app/etl/base.py: the steps of DataSourceTransformer.load() *)

generate_slugs(df) ==
    WithColumn(df, "disease_slug",
        LAMBDA row : IF IsNa(row["disease_name"]) THEN Na
                     ELSE Str(to_disease_slug(row["disease_name"].v)))

tag_data_source(df, source_name) ==
    WithColumn(df, "data_source", LAMBDA row : Str(source_name))

select_columns(df) ==
    LET available == {c \in Range(REQUIRED_COLUMNS) : c \in df.cols}
    IN  [cols |-> available,
         rows |-> [i \in 1..Len(df.rows) |-> [c \in available |-> df.rows[i][c]]]]

\* load() given what transform() did: t = [raised, cols, rows]
load(t, source_name) ==
    IF t.raised THEN [raised |-> TRUE, cols |-> {}, rows |-> <<>>]
    ELSE IF FrameEmpty(t) THEN [raised |-> FALSE, cols |-> t.cols, rows |-> t.rows]
    ELSE LET df == tag_data_source(
                       generate_slugs(
                           apply_disease_aliases([cols |-> t.cols, rows |-> t.rows])),
                       source_name)
             out == select_columns(df)
         IN  IF validate_dataframe(df)
             THEN [raised |-> TRUE, cols |-> {}, rows |-> <<>>]
             ELSE [raised |-> FALSE, cols |-> out.cols, rows |-> out.rows]
----------------------------------------------------------------------------
(* Python string order: lexicographic by code point *)

OrdOf == [c \in Chars |-> CHOOSE i \in DOMAIN AsciiOrder : AsciiOrder[i] = c]

\* ord(c)
Ord(c) == OrdOf[c]

\* a < b on str
StrLt(a, b) ==
    \E k \in 1..Len(b) :
        /\ k <= Len(a) + 1
        /\ \A j \in 1..(k - 1) : a[j] = b[j]
        /\ (k = Len(a) + 1 \/ Ord(a[k]) < Ord(b[k]))

----------------------------------------------------------------------------
(* app/etl/transformers/tracker.py *)

\* A tracker file is [dir, name, readable, cols, rows]: it lies at
\* <root>/data/states/<dir>/<name>; readable = FALSE when pd.read_csv raises.

TRACKER_SUBTYPE_NORMALIZATION ==
    { <<<<"o", "t", "h", "e", "r">>, <<"u", "n", "s", "p", "e", "c", "i", "f", "i", "e", "d">>>>, <<<<"n", "a">>, <<"u", "n", "s", "p", "e", "c", "i", "f", "i", "e", "d">>>>,
      <<<<"n", "o", "t", " ", "s", "p", "e", "c", "i", "f", "i", "e", "d">>, <<"u", "n", "s", "p", "e", "c", "i", "f", "i", "e", "d">>>>, <<<<"n", "/", "a">>, <<"u", "n", "s", "p", "e", "c", "i", "f", "i", "e", "d">>>> }

PathOf(f) == f.dir \o <<"/">> \o f.name

\* fs.glob(...): the paths in sorted order
RECURSIVE Glob(_)
Glob(files) ==
    IF files = {} THEN <<>>
    ELSE LET first == CHOOSE f \in files :
                          \A g \in files : ~StrLt(PathOf(g), PathOf(f))
         IN  <<first>> \o Glob(files \ {first})

\* the keys of files_by_state in insertion order
RECURSIVE StatesInOrder(_)
StatesInOrder(csv_files) ==
    IF csv_files = <<>> THEN <<>>
    ELSE LET rest == StatesInOrder(SubSeq(csv_files, 1, Len(csv_files) - 1))
             state == csv_files[Len(csv_files)].dir
         IN  IF state \in Range(rest) THEN rest ELSE Append(rest, state)

\* sorted(state_files, key=filename)[0]: the first file with the least name
oldest_of(state_files) ==
    state_files[CHOOSE i \in 1..Len(state_files) :
        /\ \A j \in 1..Len(state_files) :
               ~StrLt(state_files[j].name, state_files[i].name)
        /\ \A j \in 1..(i - 1) :
               StrLt(state_files[i].name, state_files[j].name)]

\* sorted(state_files, key=filename, reverse=True)[0]: the sort is stable, so
\* this is the first file of the list that has the greatest name
latest_of(state_files) ==
    state_files[CHOOSE i \in 1..Len(state_files) :
        /\ \A j \in 1..Len(state_files) :
               ~StrLt(state_files[i].name, state_files[j].name)
        /\ \A j \in 1..(i - 1) :
               StrLt(state_files[j].name, state_files[i].name)]

\* pd.read_csv(csv_file, parse_dates=[start, end]) raises on an unreadable
\* file and on a file without the two date columns
ReadFails(f) ==
    \/ ~f.readable
    \/ {"report_period_start", "report_period_end"} \ f.cols # {}

\* _select_latest_per_state: the files grouped by state directory in the
\* order of the glob, then the latest file name of each group; the choice is
\* made on the names alone, before any file is read
select_latest_per_state_readable_first(csv_files) ==
    LET states == StatesInOrder(csv_files)
    IN  [k \in 1..Len(states) |->
            IF \E i \in DOMAIN csv_files :
                   csv_files[i].dir = states[k] /\ ~ReadFails(csv_files[i])
            THEN latest_of(SelectSeq(csv_files,
                     LAMBDA f : f.dir = states[k] /\ ~ReadFails(f)))
            ELSE latest_of(SelectSeq(csv_files, LAMBDA f : f.dir = states[k]))]

select_latest_per_state(csv_files) ==
    LET states == StatesInOrder(csv_files)
    IN  [k \in 1..Len(states) |->
            latest_of(SelectSeq(csv_files, LAMBDA f : f.dir = states[k]))]

\* pd.concat(all_data, ignore_index=True): union of the columns, NaN where a
\* file has no such column
RECURSIVE ConcatRows(_, _)
ConcatRows(frames, cols) ==
    IF frames = <<>> THEN <<>>
    ELSE LET f == frames[1]
         IN  [i \in 1..Len(f.rows) |->
                 [c \in cols |-> IF c \in f.cols THEN f.rows[i][c] ELSE Na]]
             \o ConcatRows(Tail(frames), cols)

Concat(frames) ==
    LET cols == UNION {frames[k].cols : k \in 1..Len(frames)}
    IN  [cols |-> cols, rows |-> ConcatRows(frames, cols)]

tracker_normalize_columns(df) ==
    IF "reporting_jurisdiction" \in df.cols /\ "state" \notin df.cols
    THEN WithColumn(df, "state", LAMBDA row : row["reporting_jurisdiction"])
    ELSE IF "state" \in df.cols /\ "reporting_jurisdiction" \notin df.cols
    THEN WithColumn(df, "reporting_jurisdiction", LAMBDA row : row["state"])
    ELSE df

tracker_normalize_disease_names(df) ==
    WithColumn(df, "original_disease_name", LAMBDA row : row["disease_name"])

PLACEHOLDERS == { <<"n", "o", "t", " ", "s", "p", "e", "c", "i", "f", "i", "e", "d">>, <<"u", "n", "k", "n", "o", "w", "n">>, <<"n", "/", "a">>, <<"n", "a">>, <<>> }

clean_nullable(x) ==
    IF IsNa(x) \/ str_strip(str_lower(x.v), SpaceChars) \in PLACEHOLDERS
    THEN Na
    ELSE x

normalize_subtype(x) ==
    IF IsNa(x) \/ str_strip(x.v, SpaceChars) = <<>> THEN Na
    ELSE Str(DictGet(TRACKER_SUBTYPE_NORMALIZATION,
                     str_strip(str_lower(x.v), SpaceChars), x.v))

\* the columns _map_to_unified_schema reads with df[...]
TrackerNeededColumns ==
    {"report_period_start", "report_period_end", "disease_name", "state", "count"}

tracker_map_row(df, row) ==
    LET subtype == normalize_subtype(RowGet(df, row, "disease_subtype", Na))
        reporting_jurisdiction == RowGet(df, row, "reporting_jurisdiction", row["state"])
        geo_name == RowGet(df, row, "geo_name", row["state"])
        geo_unit == RowGet(df, row, "geo_unit", Str(<<"s", "t", "a", "t", "e">>))
        age_group == clean_nullable(RowGet(df, row, "age_group", Na))
    IN  [report_period_start |-> row["report_period_start"],
         report_period_end |-> row["report_period_end"],
         date_type |-> RowGet(df, row, "date_type", Str(<<"c", "c", "c", "d">>)),
         time_unit |-> RowGet(df, row, "time_unit", Str(<<"m", "o", "n", "t", "h">>)),
         disease_name |-> row["disease_name"],
         disease_slug |-> slugify(row["disease_name"]),
         original_disease_name |-> row["original_disease_name"],
         disease_subtype |-> subtype,
         disease_subtype_slug |-> slugify(subtype),
         state |-> row["state"],
         state_slug |-> slugify(row["state"]),
         reporting_jurisdiction |-> reporting_jurisdiction,
         reporting_jurisdiction_slug |-> slugify(reporting_jurisdiction),
         geo_name |-> geo_name,
         geo_name_slug |-> slugify(geo_name),
         geo_unit |-> geo_unit,
         geo_unit_slug |-> slugify(geo_unit),
         age_group |-> age_group,
         age_group_slug |-> slugify(age_group),
         confirmation_status |-> clean_nullable(RowGet(df, row, "confirmation_status", Na)),
         outcome |-> RowGet(df, row, "outcome", Str(<<"c", "a", "s", "e", "s">>)),
         count |-> row["count"]]

TrackerUnifiedColumns ==
    {"report_period_start", "report_period_end", "date_type", "time_unit",
     "disease_name", "disease_slug", "original_disease_name",
     "disease_subtype", "disease_subtype_slug", "state", "state_slug",
     "reporting_jurisdiction", "reporting_jurisdiction_slug",
     "geo_name", "geo_name_slug", "geo_unit", "geo_unit_slug",
     "age_group", "age_group_slug", "confirmation_status", "outcome", "count"}

tracker_map_to_unified_schema(df) ==
    [cols |-> TrackerUnifiedColumns,
     rows |-> [i \in 1..Len(df.rows) |-> tracker_map_row(df, df.rows[i])]]

\* transform(): [raised, cols, rows]; a missing df[...] column is a KeyError
tracker_transform_read_error_raises(files) ==
    LET all_csv_files == Glob(files)
        csv_files == select_latest_per_state(all_csv_files)
        all_data == SelectSeq(csv_files, LAMBDA f : ~ReadFails(f))
        combined == tracker_normalize_columns(Concat(all_data))
    IN  IF ~fs_exists(TRACKER_DATA_PATH) \/ all_csv_files = <<>>
        THEN [raised |-> FALSE, cols |-> {}, rows |-> <<>>]
        ELSE IF all_data # csv_files \/ TrackerNeededColumns \ combined.cols # {}
        THEN [raised |-> TRUE, cols |-> {}, rows |-> <<>>]
        ELSE LET unified == tracker_map_to_unified_schema(
                                tracker_normalize_disease_names(combined))
             IN  [raised |-> FALSE, cols |-> unified.cols, rows |-> unified.rows]

tracker_transform(files) ==
    LET all_csv_files == Glob(files)
        csv_files == select_latest_per_state(all_csv_files)
        all_data == SelectSeq(csv_files, LAMBDA f : ~ReadFails(f))
        combined == tracker_normalize_columns(Concat(all_data))
    IN  IF ~fs_exists(TRACKER_DATA_PATH) \/ all_csv_files = <<>> \/ all_data = <<>>
        THEN [raised |-> FALSE, cols |-> {}, rows |-> <<>>]
        ELSE IF TrackerNeededColumns \ combined.cols # {}
        THEN [raised |-> TRUE, cols |-> {}, rows |-> <<>>]
        ELSE LET unified == tracker_map_to_unified_schema(
                                tracker_normalize_disease_names(combined))
             IN  [raised |-> FALSE, cols |-> unified.cols, rows |-> unified.rows]
----------------------------------------------------------------------------
(* app/etl/transformers/nndss.py: NNDSSTransformer *)

\* An NNDSS file is [name, rows]; a raw row has the cells area ("Reporting
\* Area"), year ("Current MMWR Year"), week ("MMWR WEEK"), label ("Label"),
\* cur ("Current week") and loc2 ("LOCATION2").

\* sorted(nndss_files, reverse=True)[0]; the files share their directory
find_latest_file(files) ==
    CHOOSE f \in files : \A g \in files : ~StrLt(f.name, g.name)

\* _find_latest_file returns None: no directory, or no file in it
no_latest_file(files) == ~fs_exists(NNDSS_DATA_DIRECTORY) \/ files = {}

\* datetime(year, 1, 1) raises ValueError outside MINYEAR..MAXYEAR
ValidYear(year) == 1 <= year /\ year <= 9999

\* _parse_dates for one row: the row with its report period
parse_dates(row) ==
    IF IsNa(row.year) \/ IsNa(row.week) \/ ~ValidYear(row.year.v)
    THEN [report_period_start |-> Na, report_period_end |-> Na] @@ row
    ELSE [report_period_start |-> Date(get_mmwr_week_start(row.year.v, row.week.v)),
          report_period_end |-> Date(get_mmwr_week_end(row.year.v, row.week.v))] @@ row

DigitValue(c) == CHOOSE n \in 0..9 : <<"0", "1", "2", "3", "4", "5", "6", "7", "8", "9">>[n + 1] = c

RECURSIVE DigitsToInt(_)
DigitsToInt(s) ==
    IF s = <<>> THEN 0
    ELSE 10 * DigitsToInt(SubSeq(s, 1, Len(s) - 1)) + DigitValue(s[Len(s)])

\* counts.replace(["nan", "-", "", " "], "") on str(cell)
blank_non_numeric(text) ==
    IF text \in { <<"n", "a", "n">>, <<"-">>, <<>>, <<" ">> } THEN <<>> ELSE text

\* counts.str.replace(r"\D", "") and pd.to_numeric, "" being NA
digits_to_numeric(text) ==
    IF KeepMarked(text, InClass(text, DigitChars)) = <<>> THEN Na
    ELSE Num(DigitsToInt(KeepMarked(text, InClass(text, DigitChars))))

\* _clean_case_counts for one row
clean_case_counts(row) ==
    [count |-> digits_to_numeric(
                   blank_non_numeric(IF IsNa(row.cur) THEN <<"n", "a", "n">> ELSE row.cur.v))] @@ row

\* _classify_geo_unit for one row
nndss_classify_geo_unit(row) ==
    [geo_unit |-> Str(classify_geo_unit(row.area))] @@ row

\* _normalize_disease_names for one row
nndss_normalize_disease_names(row) ==
    [original_disease_name |-> row.label,
     disease_name |-> parse_nndss_label(row.label)[1],
     disease_subtype |-> parse_nndss_label(row.label)[2]] @@ row

\* _create_state_codes for one row
create_state_codes(row) ==
    [state |->
        IF row.geo_unit = Str(<<"s", "t", "a", "t", "e">>)
        THEN IF IsNa(row.area) THEN Na
             ELSE Str(DictGet(STATE_CODES, str_upper(row.area.v), row.area.v))
        ELSE IF row.geo_unit = Str(<<"r", "e", "g", "i", "o", "n">>)
        THEN IF IsNa(row.loc2) THEN row.area ELSE row.loc2
        ELSE Str(<<"U", "S">>)] @@ row

\* NNDSS_TO_TRACKER_SLUG.get(s, s) if s else None
tracker_slug_of(s) ==
    IF IsNa(s) THEN Na ELSE Str(DictGet(NNDSS_TO_TRACKER_SLUG, s.v, s.v))

\* _map_to_unified_schema for one row
nndss_map_to_unified_schema(row) ==
    [report_period_start |-> row.report_period_start,
     report_period_end |-> row.report_period_end,
     date_type |-> Str(<<"m", "m", "w", "r">>),
     time_unit |-> Str(<<"w", "e", "e", "k">>),
     disease_slug |-> tracker_slug_of(slugify(row.disease_name)),
     disease_name |-> tracker_slug_of(slugify(row.disease_name)),
     original_disease_name |-> row.original_disease_name,
     disease_subtype |-> row.disease_subtype,
     disease_subtype_slug |-> slugify(row.disease_subtype),
     state |-> row.state,
     state_slug |-> slugify(row.state),
     reporting_jurisdiction |-> row.state,
     reporting_jurisdiction_slug |-> slugify(row.state),
     geo_name |-> row.area,
     geo_name_slug |-> slugify(row.area),
     geo_unit |-> row.geo_unit,
     geo_unit_slug |-> slugify(row.geo_unit),
     age_group |-> Na,
     age_group_slug |-> Na,
     confirmation_status |-> Na,
     outcome |-> Str(<<"c", "a", "s", "e", "s">>),
     count |-> row.count]

\* the steps of transform() from _classify_geo_unit to _map_to_unified_schema
nndss_map_row(row) ==
    nndss_map_to_unified_schema(create_state_codes(nndss_normalize_disease_names(
        clean_case_counts(parse_dates(nndss_classify_geo_unit(row))))))

NndssUnifiedColumns == TrackerUnifiedColumns

nndss_transform_no_geo_filter(files) ==
    IF no_latest_file(files) THEN [raised |-> FALSE, cols |-> {}, rows |-> <<>>]
    ELSE LET raw == find_latest_file(files).rows
             unified == [i \in 1..Len(raw) |-> nndss_map_row(raw[i])]
             counted == SelectSeq(unified, LAMBDA r : ~IsNa(r.count))
         IN  [raised |-> FALSE, cols |-> NndssUnifiedColumns, rows |-> counted]

\* transform(): [raised, cols, rows]
nndss_transform(files) ==
    IF no_latest_file(files) THEN [raised |-> FALSE, cols |-> {}, rows |-> <<>>]
    ELSE LET raw == find_latest_file(files).rows
             unified == [i \in 1..Len(raw) |-> nndss_map_row(raw[i])]
             counted == SelectSeq(unified, LAMBDA r : ~IsNa(r.count))
             states == SelectSeq(counted, LAMBDA r : r.geo_unit = Str(<<"s", "t", "a", "t", "e">>))
         IN  [raised |-> FALSE, cols |-> NndssUnifiedColumns, rows |-> states]
----------------------------------------------------------------------------
(* Calls of the pure functions on bounded inputs *)

MaxLen == 4

MinYear == 2015

MaxYear == 2030

SlugAlphabet == {"a", "B", " ", "-", "_", "."}

ShortStrings == UNION {[1..k -> SlugAlphabet] : k \in 0..MaxLen}

GeoInputs ==
    { <<"U", ".", "S", ".", " ", "R", "e", "s", "i", "d", "e", "n", "t", "s">>, <<"U", ".", "S", ".", "R", "e", "s", "i", "d", "e", "n", "t", "s">>, <<"U", "S", " ", "R", "E", "S", "I", "D", "E", "N", "T", "S">>, <<"u", "s", " ", "r", "e", "s", "i", "d", "e", "n", "t", "s">>,
      <<"U", "s", " ", "R", "e", "s", "i", "d", "e", "n", "t", "s">>, <<"N", "o", "n", "-", "U", "S", " ", "R", "e", "s", "i", "d", "e", "n", "t", "s">>, <<"N", "O", "N", "-", "U", "S", " ", "R", "E", "S", "I", "D", "E", "N", "T", "S">>,
      <<"N", "o", "n", "-", "U", ".", "S", ".", " ", "R", "e", "s", "i", "d", "e", "n", "t", "s">>, <<"n", "o", "n", "-", "u", "s", " ", "r", "e", "s", "i", "d", "e", "n", "t", "s">>, <<"N", "o", "n", " ", "U", "S", " ", "R", "e", "s", "i", "d", "e", "n", "t", "s">>,
      <<"T", "o", "t", "a", "l">>, <<"T", "O", "T", "A", "L">>, <<"t", "o", "t", "a", "l">>, <<"T", "o", "t", "a", "l", ".">>,
      <<"P", "a", "c", "i", "f", "i", "c">>, <<"P", "A", "C", "I", "F", "I", "C">>, <<"p", "a", "c", "i", "f", "i", "c">>, <<"P", "a", "c", "i", "f", "i", "c", ".">>,
      <<"N", "e", "w", " ", "E", "n", "g", "l", "a", "n", "d">>, <<"N", "E", "W", " ", "E", "N", "G", "L", "A", "N", "D">>, <<"n", "e", "w", " ", "e", "n", "g", "l", "a", "n", "d">>, <<"N", "e", "w", "-", "E", "n", "g", "l", "a", "n", "d">>,
      <<"M", "o", "u", "n", "t", "a", "i", "n">>, <<"E", "a", "s", "t", " ", "N", "o", "r", "t", "h", " ", "C", "e", "n", "t", "r", "a", "l">>, <<"S", "O", "U", "T", "H", " ", "A", "T", "L", "A", "N", "T", "I", "C">>,
      <<"U", ".", "S", ".", " ", "T", "e", "r", "r", "i", "t", "o", "r", "i", "e", "s">>, <<"U", "S", " ", "T", "E", "R", "R", "I", "T", "O", "R", "I", "E", "S">>, <<"U", "s", " ", "T", "e", "r", "r", "i", "t", "o", "r", "i", "e", "s">>,
      <<"C", "a", "l", "i", "f", "o", "r", "n", "i", "a">>, <<"C", "A", "L", "I", "F", "O", "R", "N", "I", "A">>, <<"N", "e", "w", " ", "Y", "o", "r", "k", " ", "C", "i", "t", "y">>, <<"C", "A">>,
      <<"M", "a", "s", "s", "a", "c", "h", "u", "s", "e", "t", "t", "s">>, <<"M", "A", "S", "S", "A", "C", "H", "U", "S", "E", "T", "T", "S">> }

LabelBases == { <<"M", "e", "a", "s", "l", "e", "s">>, <<"M", "e", "n", "i", "n", "g", "o", "c", "o", "c", "c", "a", "l", " ", "d", "i", "s", "e", "a", "s", "e">>, <<"P", "e", "r", "t", "u", "s", "s", "i", "s">>, <<" ", "M", "E", "A", "S", "L", "E", "S", " ">> }

LabelSubtypes ==
    { <<>>, <<" ">>, <<"I", "m", "p", "o", "r", "t", "e", "d">>, <<"I", "n", "d", "i", "g", "e", "n", "o", "u", "s">>, <<"i", "n", "d", "i", "g", "e", "n", "o", "u", "s", " ">>, <<"A", "l", "l", " ", "s", "e", "r", "o", "g", "r", "o", "u", "p", "s">>,
      <<"A", "L", "L", " ", "S", "E", "R", "O", "G", "R", "O", "U", "P", "S">>, <<"T", "o", "t", "a", "l">>, <<"A", "l", "l">>, <<"S", "e", "r", "o", "g", "r", "o", "u", "p", " ", "B">>, <<"s", "e", "r", "o", "g", "r", "o", "u", "p", "s", " ", "A", "C", "W", "Y">>,
      <<"S", "e", "r", "o", "g", "r", "o", "u", "p", " ", " ", "B">>, <<"O", "t", "h", "e", "r", " ", "s", "e", "r", "o", "g", "r", "o", "u", "p", "s">>, <<"O", "t", "h", "e", "r">>, <<"U", "n", "k", "n", "o", "w", "n", " ", "s", "e", "r", "o", "g", "r", "o", "u", "p">>,
      <<"U", "n", "k", "n", "o", "w", "n">>, <<"B">>, <<"S", "e", "r", "o", "g", "r", "o", "u", "p", "s">>, <<"T", "o", "t", "a", "l", ".">>, <<"A", "l", "l", " ", " ", "s", "e", "r", "o", "g", "r", "o", "u", "p", "s">>,
      <<"a", "l", "l", "_", "s", "e", "r", "o", "g", "r", "o", "u", "p", "s">>, <<"I", "m", "p", "o", "r", "t", "e", "d", ",", " ", "T", "o", "t", "a", "l">>, <<"W", " ", "s", "e", "r", "o", "g", "r", "o", "u", "p", " ">> }

LabelInputs ==
    LabelBases \cup {b \o <<",">> \o s : b \in LabelBases, s \in LabelSubtypes}
               \cup {b \o <<",", " ">> \o s : b \in LabelBases, s \in LabelSubtypes}

TextInputs ==
    {Na} \cup {Str(s) : s \in ShortStrings \cup GeoInputs \cup LabelInputs}

NoRet == [fn |-> "none", val |-> <<>>]

NoResult == [op |-> "none", src |-> <<>>, selected |-> <<>>, raised |-> FALSE,
             cols |-> {}, rows |-> <<>>]

EtlIdle == trackerFiles = {} /\ nndssFiles = {} /\ sourceDirs = {} /\ result = NoResult

EtlUnchanged == UNCHANGED <<trackerFiles, nndssFiles, sourceDirs, result>>

\* DiseaseDatabase.__init__: no connection, not initialized; no table yet
NoDb == [conn |-> FALSE, initialized |-> FALSE, lock |-> <<>>,
         tables |-> {}, disease_data |-> <<>>, indexes |-> {}, mapping |-> {}]

\* no thread is running and no request was dispatched
NoThreads == <<>>

NoHttp == [phase |-> "none"]

ServiceIdle == db = NoDb /\ threads = NoThreads /\ http = NoHttp

ServiceUnchanged == UNCHANGED <<db, threads, http>>

CallSlugify ==
    /\ ret' = [fn |-> "slugify", val |-> slugify(arg)]
    /\ UNCHANGED arg
    /\ EtlUnchanged
    /\ ServiceUnchanged

\* slugify applied to the slug the previous call returned
CallSlugifyAgain ==
    /\ ret.fn = "slugify"
    /\ ret' = [fn |-> "slugify_again", val |-> <<ret.val, slugify(ret.val)>>]
    /\ UNCHANGED arg
    /\ EtlUnchanged
    /\ ServiceUnchanged

CallToDiseaseSlug ==
    /\ ~IsNa(arg)
    /\ ret' = [fn |-> "to_disease_slug", val |-> to_disease_slug(arg.v)]
    /\ UNCHANGED arg
    /\ EtlUnchanged
    /\ ServiceUnchanged

CallClassifyGeoUnit ==
    /\ ret' = [fn |-> "classify_geo_unit", val |-> classify_geo_unit(arg)]
    /\ UNCHANGED arg
    /\ EtlUnchanged
    /\ ServiceUnchanged

CallParseNndssLabel ==
    /\ ret' = [fn |-> "_parse_nndss_label", val |-> parse_nndss_label(arg)]
    /\ UNCHANGED arg
    /\ EtlUnchanged
    /\ ServiceUnchanged

InitText == arg \in TextInputs /\ ret = NoRet /\ EtlIdle /\ ServiceIdle

NextText ==
    \/ CallSlugify
    \/ CallSlugifyAgain
    \/ CallToDiseaseSlug
    \/ CallClassifyGeoUnit
    \/ CallParseNndssLabel

SpecText == InitText /\ [][NextText]_vars

----------------------------------------------------------------------------
(* Calls of the MMWR week converter: arg = <<year, week>> *)

CallWeekStart ==
    /\ ret' = [fn |-> "get_mmwr_week_start",
               val |-> get_mmwr_week_start(arg[1], arg[2])]
    /\ UNCHANGED arg
    /\ EtlUnchanged
    /\ ServiceUnchanged

\* val = <<start, end>> of the same week
CallWeekEnd ==
    /\ ret.fn = "get_mmwr_week_start"
    /\ ret' = [fn |-> "get_mmwr_week_end",
               val |-> <<ret.val, get_mmwr_week_end(arg[1], arg[2])>>]
    /\ UNCHANGED arg
    /\ EtlUnchanged
    /\ ServiceUnchanged

\* val = <<start of the week, start of the following week>>
CallNextWeekStart ==
    /\ ret.fn = "get_mmwr_week_start"
    /\ arg[2] <= 52
    /\ ret' = [fn |-> "next_week_start",
               val |-> <<ret.val, get_mmwr_week_start(arg[1], arg[2] + 1)>>]
    /\ UNCHANGED arg
    /\ EtlUnchanged
    /\ ServiceUnchanged

InitWeek ==
    /\ arg \in (MinYear..MaxYear) \X (1..53)
    /\ ret = NoRet
    /\ EtlIdle
    /\ ServiceIdle

NextWeek == CallWeekStart \/ CallWeekEnd \/ CallNextWeekStart

SpecWeek == InitWeek /\ [][NextWeek]_vars
----------------------------------------------------------------------------
(* The source directories the transformers are run on *)

MaxFiles == 2

TrackerDirs == { <<"I", "D">>, <<"M", "A">> }

TrackerNames == { <<"2", "0", "2", "5", "1", "1", "0", "1", "-", "a", ".", "c", "s", "v">>, <<"2", "0", "2", "5", "1", "1", "0", "7", "-", "a", ".", "c", "s", "v">>, <<"2", "0", "2", "5", "1", "1", "0", "1", "_", "b", ".", "c", "s", "v">> }

\* the row of the tracker fixture (2025-08-03 .. 2025-08-09)
TrackerBaseRow ==
    [report_period_start |-> Date(739466),
     report_period_end |-> Date(739472),
     date_type |-> Str(<<"c", "c", "c", "d">>),
     time_unit |-> Str(<<"w", "e", "e", "k">>),
     disease_name |-> Str(<<"m", "e", "a", "s", "l", "e", "s">>),
     disease_subtype |-> Na,
     state |-> Str(<<"I", "D">>),
     reporting_jurisdiction |-> Str(<<"I", "D">>),
     geo_name |-> Str(<<"I", "D">>),
     geo_unit |-> Str(<<"s", "t", "a", "t", "e">>),
     age_group |-> Str(<<"1", "-", "4", " ", "y">>),
     confirmation_status |-> Str(<<"c", "o", "n", "f", "i", "r", "m", "e", "d">>),
     outcome |-> Str(<<"c", "a", "s", "e", "s">>),
     count |-> Num(5)]

\* a count cell: an integer, a missing value, or text pandas could not parse
TrackerCounts == {Num(10), Num(0), Num(0 - 3), Na, Str(<<"n", "/", "k">>)}

TrackerDiseases ==
    {Str(<<"m", "e", "n", "i", "n", "g", "o", "c", "o", "c", "c", "u", "s">>), Str(<<"p", "e", "r", "t", "u", "s", "s", "i", "s">>), Str(<<"H", "a", "n", "s", "e", "n", "'", "s", " ", "D", "i", "s", "e", "a", "s", "e">>),
     Str(<<"R", "S", "V", "/", "F", "l", "u">>), Na}

TrackerRows ==
    {TrackerBaseRow}
    \cup {[TrackerBaseRow EXCEPT !.count = c] : c \in TrackerCounts}
    \cup {[TrackerBaseRow EXCEPT !.disease_name = d] : d \in TrackerDiseases}
    \cup {[TrackerBaseRow EXCEPT !.state = Na]}
    \cup {[TrackerBaseRow EXCEPT !.report_period_end = Date(739460)]}
    \cup {[TrackerBaseRow EXCEPT !.age_group = Str(<<"N", "o", "t", " ", "S", "p", "e", "c", "i", "f", "i", "e", "d">>)],
          [TrackerBaseRow EXCEPT !.confirmation_status = Str(<<" ", "U", "n", "k", "n", "o", "w", "n", " ">>)],
          [TrackerBaseRow EXCEPT !.disease_subtype = Str(<<"u", "n", "k", "n", "o", "w", "n">>)],
          [TrackerBaseRow EXCEPT !.disease_subtype = Str(<<"N", "o", "t", " ", "S", "p", "e", "c", "i", "f", "i", "e", "d">>)],
          [TrackerBaseRow EXCEPT !.disease_subtype = Str(<<"B">>)]}
    \cup {[c \in TrackerNeededColumns |-> TrackerBaseRow[c]]}
    \cup {[c \in DOMAIN TrackerBaseRow \ {"state"} |-> TrackerBaseRow[c]]}

\* every path holds the fixture row, the fixture row with count 10 or an
\* unreadable file; one path also holds each of the other rows
TrackerFileChoices ==
    {[dir |-> d, name |-> n, readable |-> TRUE, cols |-> DOMAIN r, rows |-> <<r>>] :
        d \in TrackerDirs, n \in TrackerNames,
        r \in {TrackerBaseRow, [TrackerBaseRow EXCEPT !.count = Num(10)]}}
    \cup {[dir |-> <<"I", "D">>, name |-> <<"2", "0", "2", "5", "1", "1", "0", "7", "-", "a", ".", "c", "s", "v">>, readable |-> TRUE,
           cols |-> DOMAIN r, rows |-> <<r>>] : r \in TrackerRows}
    \cup {[dir |-> d, name |-> n, readable |-> FALSE, cols |-> {}, rows |-> <<>>] :
        d \in TrackerDirs, n \in TrackerNames}

\* the directory trees of at most n files (a path names one file)
RECURSIVE TrackerTrees(_)
TrackerTrees(n) ==
    IF n = 0 THEN {{}}
    ELSE LET smaller == TrackerTrees(n - 1)
         IN  smaller \cup
             {S \cup {f} : S \in smaller,
                           f \in TrackerFileChoices}

\* a state whose latest file is unreadable above an older readable one, next
\* to a state with a readable file
UnreadableLatestTree ==
    {[dir |-> <<"I", "D">>, name |-> <<"2", "0", "2", "5", "1", "1", "0", "1", "-", "a", ".", "c", "s", "v">>, readable |-> TRUE,
      cols |-> DOMAIN TrackerBaseRow,
      rows |-> <<[TrackerBaseRow EXCEPT !.count = Num(10)]>>],
     [dir |-> <<"I", "D">>, name |-> <<"2", "0", "2", "5", "1", "1", "0", "7", "-", "a", ".", "c", "s", "v">>, readable |-> FALSE,
      cols |-> {}, rows |-> <<>>],
     [dir |-> <<"M", "A">>, name |-> <<"2", "0", "2", "5", "1", "1", "0", "7", "-", "a", ".", "c", "s", "v">>, readable |-> TRUE,
      cols |-> DOMAIN TrackerBaseRow, rows |-> <<TrackerBaseRow>>]}

TrackerInputs ==
    {S \in TrackerTrees(MaxFiles) :
        \A f, g \in S : (f.dir = g.dir /\ f.name = g.name) => f = g}
    \cup {UnreadableLatestTree}

\* the row of the NNDSS fixture
NndssBaseRow ==
    [area |-> Str(<<"M", "A", "S", "S", "A", "C", "H", "U", "S", "E", "T", "T", "S">>), year |-> Num(2022), week |-> Num(1),
     label |-> Str(<<"P", "e", "r", "t", "u", "s", "s", "i", "s">>), cur |-> Str(<<"5">>), loc2 |-> Na]

NndssAreas ==
    {Str(<<"U", "S", " ", "R", "E", "S", "I", "D", "E", "N", "T", "S">>), Str(<<"T", "O", "T", "A", "L">>), Str(<<"N", "E", "W", " ", "E", "N", "G", "L", "A", "N", "D">>), Str(<<"P", "a", "c", "i", "f", "i", "c">>),
     Str(<<"U", ".", "S", ".", " ", "R", "e", "s", "i", "d", "e", "n", "t", "s">>), Str(<<"C", "a", "l", "i", "f", "o", "r", "n", "i", "a">>), Na}

NndssCounts == {Str(<<"-">>), Str(<<"N">>), Str(<<"-", "5">>), Str(<<"1", ",", "2", "3", "4">>), Str(<<"0">>), Na}

NndssLabels ==
    {Str(<<"M", "e", "a", "s", "l", "e", "s", ",", " ", "I", "m", "p", "o", "r", "t", "e", "d">>), Str(<<"M", "e", "a", "s", "l", "e", "s">>),
     Str(<<"M", "e", "n", "i", "n", "g", "o", "c", "o", "c", "c", "a", "l", " ", "d", "i", "s", "e", "a", "s", "e", ",", " ", "S", "e", "r", "o", "g", "r", "o", "u", "p", " ", "B">>),
     Str(<<"M", "e", "n", "i", "n", "g", "o", "c", "o", "c", "c", "a", "l", " ", "d", "i", "s", "e", "a", "s", "e", ",", " ", "A", "l", "l", " ", "s", "e", "r", "o", "g", "r", "o", "u", "p", "s">>),
     Str(<<"M", "e", "n", "i", "n", "g", "o", "c", "o", "c", "c", "a", "l", " ", "d", "i", "s", "e", "a", "s", "e">>), Str(<<"P", "e", "r", "t", "u", "s", "s", "i", "s", ",", " ", "T", "o", "t", "a", "l", ".">>),
     Str(<<"H", "a", "n", "s", "e", "n", "'", "s", " ", "d", "i", "s", "e", "a", "s", "e">>), Na}

NndssWeeks ==
    {<<Na, Num(1)>>, <<Num(2024), Na>>, <<Num(2024), Num(53)>>, <<Num(2024), Num(60)>>}

NndssRows ==
    {NndssBaseRow}
    \cup {[NndssBaseRow EXCEPT !.area = a,
                               !.loc2 = IF a = Str(<<"N", "E", "W", " ", "E", "N", "G", "L", "A", "N", "D">>) THEN a ELSE Na] :
             a \in NndssAreas}
    \cup {[NndssBaseRow EXCEPT !.cur = c] : c \in NndssCounts}
    \cup {[NndssBaseRow EXCEPT !.label = l] : l \in NndssLabels}
    \cup {[NndssBaseRow EXCEPT !.year = w[1], !.week = w[2]] : w \in NndssWeeks}
    \cup {[NndssBaseRow EXCEPT !.area = Str(<<"U", "S", " ", "R", "E", "S", "I", "D", "E", "N", "T", "S">>), !.cur = Na],
          [NndssBaseRow EXCEPT !.area = Str(<<"P", "A", "C", "I", "F", "I", "C">>), !.cur = Str(<<"-">>),
                               !.label = Str(<<"M", "e", "a", "s", "l", "e", "s", ",", " ", "I", "n", "d", "i", "g", "e", "n", "o", "u", "s">>)]}

\* one row, or a row next to the fixture row
NndssContents ==
    {<<r>> : r \in NndssRows}
    \cup {<<r, NndssBaseRow>> : r \in NndssRows}
    \cup {<<NndssBaseRow, r>> : r \in NndssRows}

\* the latest file holds any content, an older file the fixture row or a
\* national row
NndssLatestChoices ==
    {[name |-> <<"N", "N", "D", "S", "S", "_", "W", "e", "e", "k", "l", "y", "_", "D", "a", "t", "a", "_", "2", "0", "2", "5", "0", "1", "0", "8", ".", "c", "s", "v">>, rows |-> c] : c \in NndssContents}

NndssOlderChoices ==
    {[name |-> <<"N", "N", "D", "S", "S", "_", "W", "e", "e", "k", "l", "y", "_", "D", "a", "t", "a", "_", "2", "0", "2", "5", "0", "1", "0", "1", ".", "c", "s", "v">>, rows |-> c] :
        c \in {<<NndssBaseRow>>,
               <<[NndssBaseRow EXCEPT !.area = Str(<<"U", "S", " ", "R", "E", "S", "I", "D", "E", "N", "T", "S">>)]>>}}

NndssInputs ==
    {{f} : f \in NndssLatestChoices \cup NndssOlderChoices}
    \cup {{f, g} : f \in NndssOlderChoices, g \in NndssLatestChoices}

----------------------------------------------------------------------------
(* transform() and load() of the two transformers *)

\* the directories that can exist around the files: a file lies in an
\* existing directory, and data/states lies in the tracker root
SourceDirChoices(tfiles, nfiles) ==
    {D \in SUBSET {DATA_DIRECTORY, TRACKER_DATA_PATH, NNDSS_DATA_DIRECTORY} :
        /\ TRACKER_DATA_PATH \in D => DATA_DIRECTORY \in D
        /\ tfiles # {} => TRACKER_DATA_PATH \in D
        /\ nfiles # {} => NNDSS_DATA_DIRECTORY \in D}

SelectedPaths(csv_files) == [k \in 1..Len(csv_files) |-> PathOf(csv_files[k])]

TrackerTransform ==
    /\ result' = [op |-> "transform", src |-> <<"t", "r", "a", "c", "k", "e", "r">>,
                  selected |-> SelectedPaths(select_latest_per_state(Glob(trackerFiles)))]
                 @@ tracker_transform(trackerFiles)
    /\ UNCHANGED <<arg, ret, trackerFiles, nndssFiles, sourceDirs>>
    /\ ServiceUnchanged

TrackerLoad ==
    /\ result' = [op |-> "load", src |-> <<"t", "r", "a", "c", "k", "e", "r">>,
                  selected |-> SelectedPaths(select_latest_per_state(Glob(trackerFiles)))]
                 @@ load(tracker_transform(trackerFiles), <<"t", "r", "a", "c", "k", "e", "r">>)
    /\ UNCHANGED <<arg, ret, trackerFiles, nndssFiles, sourceDirs>>
    /\ ServiceUnchanged

NndssSelected ==
    IF no_latest_file(nndssFiles) THEN <<>> ELSE <<find_latest_file(nndssFiles).name>>

NndssTransform ==
    /\ result' = [op |-> "transform", src |-> <<"n", "n", "d", "s", "s">>, selected |-> NndssSelected]
                 @@ nndss_transform(nndssFiles)
    /\ UNCHANGED <<arg, ret, trackerFiles, nndssFiles, sourceDirs>>
    /\ ServiceUnchanged

NndssLoad ==
    /\ result' = [op |-> "load", src |-> <<"n", "n", "d", "s", "s">>, selected |-> NndssSelected]
                 @@ load(nndss_transform(nndssFiles), <<"n", "n", "d", "s", "s">>)
    /\ UNCHANGED <<arg, ret, trackerFiles, nndssFiles, sourceDirs>>
    /\ ServiceUnchanged

InitEtl ==
    /\ arg = Na
    /\ ret = NoRet
    /\ result = NoResult
    /\ \/ trackerFiles \in TrackerInputs /\ nndssFiles = {}
       \/ trackerFiles = {} /\ nndssFiles \in NndssInputs
    /\ sourceDirs \in SourceDirChoices(trackerFiles, nndssFiles)
    /\ ServiceIdle

NextEtl == TrackerTransform \/ TrackerLoad \/ NndssTransform \/ NndssLoad

SpecEtl == InitEtl /\ [][NextEtl]_vars
----------------------------------------------------------------------------
(* app/database.py: DiseaseDatabase                                         *)
(*                                                                          *)
(* db.tables is the set of tables that exist in DuckDB, db.disease_data the *)
(* rows of disease_data, db.lock the owner of self._lock (<<>> when free).  *)
(* A thread is [call, pc, k, caught, inserted, ret, executed, seen, calls,   *)
(* data_source]: the method it runs, its position in it, the index of the   *)
(* source being loaded, the sources whose exception _load_source logged,    *)
(* the number of rows it inserted per source, what the call returned or     *)
(* that it raised, the number of SELECTs it executed, what its SELECT read, *)
(* the number of calls it has made, and the data_source argument.           *)

MaxCalls == 2

Threads == {"t1", "t2"}

\* list_sources(): sorted(TRANSFORMERS.keys())
list_sources == << <<"n", "n", "d", "s", "s">>, <<"t", "r", "a", "c", "k", "e", "r">> >>

\* _load_source: the source path of a configured source
source_path(source_name) ==
    IF source_name = <<"t", "r", "a", "c", "k", "e", "r">> THEN DATA_DIRECTORY ELSE NNDSS_DATA_DIRECTORY

\* transformer_cls(source_path).transform()
transformer_transform(source_name) ==
    IF source_name = <<"t", "r", "a", "c", "k", "e", "r">>
    THEN tracker_transform(trackerFiles)
    ELSE nndss_transform(nndssFiles)

\* transformer_cls(source_path).load()
transformer_load(source_name) ==
    IF source_name = <<"t", "r", "a", "c", "k", "e", "r">>
    THEN load(tracker_transform(trackerFiles), <<"t", "r", "a", "c", "k", "e", "r">>)
    ELSE load(nndss_transform(nndssFiles), <<"n", "n", "d", "s", "s">>)

\* INSERT INTO disease_data SELECT * FROM temp_data raises when the table
\* does not exist or when a count is not convertible to BIGINT
insert_raises(rows) ==
    \/ "disease_data" \notin db.tables
    \/ \E i \in 1..Len(rows) : rows[i]["count"].t = "str"

\* the try block of _load_source on the frame load() returned (or raised):
\* the rows it inserts and whether the except clause logged an error
insert_or_log(df) ==
    IF df.raised THEN [rows |-> <<>>, caught |-> TRUE]
    ELSE IF df.rows = <<>> THEN [rows |-> <<>>, caught |-> FALSE]
    ELSE IF insert_raises(df.rows) THEN [rows |-> <<>>, caught |-> TRUE]
    ELSE [rows |-> df.rows, caught |-> FALSE]

load_source_logs_missing(source_name) ==
    IF ~fs_exists(source_path(source_name))
    THEN [rows |-> <<>>, caught |-> TRUE]
    ELSE insert_or_log(transformer_load(source_name))

\* _load_source
load_source(source_name) ==
    IF ~fs_exists(source_path(source_name))
    THEN [rows |-> <<>>, caught |-> FALSE]
    ELSE insert_or_log(transformer_load(source_name))

\* the least string of a non-empty set, and ORDER BY on a set of strings
MinStr(S) == CHOOSE a \in S : \A b \in S : ~StrLt(b, a)

RECURSIVE order_by(_)
order_by(S) ==
    IF S = {} THEN <<>> ELSE <<MinStr(S)>> \o order_by(S \ {MinStr(S)})

\* WHERE data_source = ? when data_source is given ("if data_source:")
where_data_source(rows, data_source) ==
    IF IsNa(data_source) \/ data_source.v = <<>> THEN rows
    ELSE SelectSeq(rows, LAMBDA r : r["data_source"] = data_source)

\* SELECT DISTINCT disease_name FROM disease_data ... ORDER BY disease_name
select_distinct_disease_name(rows) ==
    order_by({rows[i]["disease_name"].v : i \in 1..Len(rows)})

\* get_diseases, once inside the lock
get_diseases(rows, data_source) ==
    select_distinct_disease_name(where_data_source(rows, data_source))

\* get_disease_name_by_slug: the names LIMIT 1 can pick from
names_by_slug(rows, slug) ==
    {rows[i]["disease_name"] : i \in {j \in 1..Len(rows) : rows[j]["disease_slug"] = Str(slug)}}

\* the entries of STATE_TO_FIPS for the states the model feeds in
STATE_TO_FIPS ==
    { <<<<"C", "A">>, <<"0", "6">>>>, <<<<"I", "D">>, <<"1", "6">>>>, <<<<"M", "A">>, <<"2", "5">>>>, <<<<"N", "Y">>, <<"3", "6">>>> }

\* WHERE disease_name = ? AND state IS NOT NULL AND state != ''
where_disease_and_state(rows, disease_name) ==
    SelectSeq(rows, LAMBDA r : /\ r["disease_name"] = Str(disease_name)
                               /\ ~IsNa(r["state"])
                               /\ r["state"].v # <<>>)

\* SUM(count) of the rows of one state; NULL counts add nothing
RECURSIVE sum_count(_, _)
sum_count(rows, state) ==
    IF rows = <<>> THEN 0
    ELSE (IF Head(rows)["state"].v = state /\ ~IsNa(Head(rows)["count"])
          THEN Head(rows)["count"].v ELSE 0)
         + sum_count(Tail(rows), state)

\* GROUP BY state ORDER BY state, then "if fips and cases > 0"
kept_states(rows) ==
    order_by({rows[i]["state"].v : i \in {j \in 1..Len(rows) :
        /\ \E e \in STATE_TO_FIPS : e[1] = rows[j]["state"].v
        /\ sum_count(rows, rows[j]["state"].v) > 0}})

state_totals(rows) ==
    [k \in 1..Len(kept_states(rows)) |->
        <<kept_states(rows)[k], sum_count(rows, kept_states(rows)[k])>>]

\* get_state_case_totals, once inside the lock: the "states" of the result
\* as <<state, cases>> in the order of the query
get_state_case_totals(rows, disease_name) ==
    state_totals(where_disease_and_state(rows, disease_name))

NoTable == [table |-> FALSE, rows |-> <<>>]

IdleThread ==
    [call |-> "none", pc |-> "idle", k |-> 0, caught |-> {}, inserted |-> <<>>,
     ret |-> [status |-> "none", val |-> Na], executed |-> 0, seen |-> NoTable,
     calls |-> 0, data_source |-> Na, snapshot |-> <<>>]

Enter(t, call, pc, data_source) ==
    [threads EXCEPT ![t] = [IdleThread EXCEPT !.call = call, !.pc = pc,
                               !.data_source = data_source,
                               !.calls = threads[t].calls + 1]]

At(t, call, pc) == threads[t].call = call /\ threads[t].pc = pc

Return(t, value) ==
    [threads EXCEPT ![t].pc = "done", ![t].ret = [status |-> "returned", val |-> value]]

Raise(t) ==
    [threads EXCEPT ![t].pc = "done", ![t].ret = [status |-> "raised", val |-> Na]]

\* a SELECT on disease_data: raises without the table, else reads its rows
Select(t, value) ==
    IF "disease_data" \notin db.tables
    THEN [Raise(t) EXCEPT ![t].executed = 1]
    ELSE [Return(t, value) EXCEPT
             ![t].executed = 1,
             ![t].seen = [table |-> TRUE, rows |-> db.disease_data]]

DbFrame == UNCHANGED <<arg, ret, trackerFiles, nndssFiles, sourceDirs, result, http>>

\* load_all_sources: "if self._initialized: return", else connect();
\* snapshot keeps the files that were present at the call
LoadBegin(t) ==
    /\ threads[t].pc \in {"idle", "done"}
    /\ threads[t].calls < MaxCalls
    /\ IF db.initialized
       THEN /\ threads' = [Enter(t, "load_all_sources", "done", Na) EXCEPT
                              ![t].ret = [status |-> "returned", val |-> Na],
                              ![t].snapshot = <<trackerFiles, nndssFiles>>]
            /\ UNCHANGED db
       ELSE /\ threads' = [Enter(t, "load_all_sources", "drop", Na) EXCEPT
                              ![t].snapshot = <<trackerFiles, nndssFiles>>]
            /\ db' = [db EXCEPT !.conn = TRUE]
    /\ DbFrame

\* DROP TABLE IF EXISTS disease_data (its indexes go with it)
LoadDrop(t) ==
    /\ At(t, "load_all_sources", "drop")
    /\ db' = [db EXCEPT !.tables = @ \ {"disease_data"}, !.disease_data = <<>>,
                        !.indexes = {}]
    /\ threads' = [threads EXCEPT ![t].pc = "create"]
    /\ DbFrame

\* CREATE TABLE disease_data (...): raises when the table exists
LoadCreate(t) ==
    /\ At(t, "load_all_sources", "create")
    /\ IF "disease_data" \in db.tables
       THEN /\ threads' = Raise(t)
            /\ UNCHANGED db
       ELSE /\ db' = [db EXCEPT !.tables = @ \cup {"disease_data"}]
            /\ threads' = [threads EXCEPT ![t].pc = "sources", ![t].k = 1]
    /\ DbFrame

\* one turn of "for source_name in list_sources(): self._load_source(...)"
LoadSource(t) ==
    /\ At(t, "load_all_sources", "sources")
    /\ threads[t].k <= Len(list_sources)
    /\ LET source_name == list_sources[threads[t].k]
           done == load_source(source_name)
       IN  /\ db' = [db EXCEPT !.disease_data = @ \o done.rows]
           /\ threads' = [threads EXCEPT
                  ![t].k = @ + 1,
                  ![t].inserted = Append(@, Len(done.rows)),
                  ![t].caught = IF done.caught THEN @ \cup {source_name} ELSE @]
    /\ DbFrame

\* _create_indexes: raises when disease_data does not exist
LoadCreateIndexes(t) ==
    /\ At(t, "load_all_sources", "sources")
    /\ threads[t].k > Len(list_sources)
    /\ IF "disease_data" \notin db.tables
       THEN /\ threads' = Raise(t)
            /\ UNCHANGED db
       ELSE /\ db' = [db EXCEPT !.indexes =
                         {"idx_disease_name", "idx_disease_slug", "idx_state",
                          "idx_report_period", "idx_data_source"}]
            /\ threads' = [threads EXCEPT ![t].pc = "mapping"]
    /\ DbFrame

\* _create_disease_mapping_table
LoadCreateMapping(t) ==
    /\ At(t, "load_all_sources", "mapping")
    /\ db' = [db EXCEPT !.tables = @ \cup {"disease_name_mapping"},
                        !.mapping = TRACKER_TO_NNDSS]
    /\ threads' = [threads EXCEPT ![t].pc = "set_initialized"]
    /\ DbFrame

\* self._initialized = True
LoadSetInitialized(t) ==
    /\ At(t, "load_all_sources", "set_initialized")
    /\ db' = [db EXCEPT !.initialized = TRUE]
    /\ threads' = [threads EXCEPT ![t].pc = "count"]
    /\ DbFrame

\* SELECT COUNT(*) FROM disease_data for the log: raises without the table
LoadCount(t) ==
    /\ At(t, "load_all_sources", "count")
    /\ threads' = IF "disease_data" \in db.tables THEN Return(t, Na) ELSE Raise(t)
    /\ UNCHANGED db
    /\ DbFrame

QueryBegin_unchecked(t, call, data_source) ==
    /\ threads[t].pc \in {"idle", "done"}
    /\ threads[t].calls < MaxCalls
    /\ threads' = Enter(t, call, "acquire", data_source)
    /\ UNCHANGED db
    /\ DbFrame

\* a query method: "if not self._initialized: return <default>"
QueryBegin(t, call, data_source) ==
    /\ threads[t].pc \in {"idle", "done"}
    /\ threads[t].calls < MaxCalls
    /\ threads' = IF db.initialized
                  THEN Enter(t, call, "acquire", data_source)
                  ELSE [Enter(t, call, "done", data_source) EXCEPT
                           ![t].ret = [status |-> "returned",
                                       val |-> IF call = "get_disease_name_by_slug"
                                               THEN Na ELSE <<>>]]
    /\ UNCHANGED db
    /\ DbFrame

GetDiseasesBegin(t) ==
    \E data_source \in {Na, Str(<<"t", "r", "a", "c", "k", "e", "r">>)} : QueryBegin(t, "get_diseases", data_source)

GetDiseaseNameBySlugBegin(t) ==
    QueryBegin(t, "get_disease_name_by_slug", Na)

GetStateCaseTotalsBegin(t) ==
    QueryBegin(t, "get_state_case_totals", Na)

\* "with self._lock:" entered (an RLock: free, or owned by the thread)
QueryAcquire(t) ==
    /\ threads[t].pc = "acquire"
    /\ db.lock = <<>>
    /\ db' = [db EXCEPT !.lock = <<t>>]
    /\ threads' = [threads EXCEPT ![t].pc = "execute"]
    /\ DbFrame

\* get_diseases: the SELECT, the return and the release of the lock
GetDiseasesExecute(t) ==
    /\ At(t, "get_diseases", "execute")
    /\ db' = [db EXCEPT !.lock = <<>>]
    /\ threads' = Select(t, get_diseases(db.disease_data, threads[t].data_source))
    /\ DbFrame

\* get_disease_name_by_slug("measles"): LIMIT 1 picks any matching name
GetDiseaseNameBySlugExecute(t) ==
    /\ At(t, "get_disease_name_by_slug", "execute")
    /\ db' = [db EXCEPT !.lock = <<>>]
    /\ \E name \in IF names_by_slug(db.disease_data, <<"m", "e", "a", "s", "l", "e", "s">>) = {}
                    THEN {Na}
                    ELSE names_by_slug(db.disease_data, <<"m", "e", "a", "s", "l", "e", "s">>) :
          threads' = Select(t, name)
    /\ DbFrame

\* get_state_case_totals("measles"): the SELECT, the loop over its rows, the
\* return and the release of the lock
GetStateCaseTotalsExecute(t) ==
    /\ At(t, "get_state_case_totals", "execute")
    /\ db' = [db EXCEPT !.lock = <<>>]
    /\ threads' = Select(t, get_state_case_totals(db.disease_data, <<"m", "e", "a", "s", "l", "e", "s">>))
    /\ DbFrame

----------------------------------------------------------------------------
(* The source directories the database is loaded from *)

DbTrackerFile(row) ==
    [dir |-> <<"I", "D">>, name |-> <<"2", "0", "2", "5", "1", "1", "0", "7", "-", "a", ".", "c", "s", "v">>, readable |-> TRUE,
     cols |-> DOMAIN row, rows |-> <<row>>]

DbNndssFile(row) ==
    [name |-> <<"N", "N", "D", "S", "S", "_", "W", "e", "e", "k", "l", "y", "_", "D", "a", "t", "a", "_", "2", "0", "2", "5", "0", "1", "0", "8", ".", "c", "s", "v">>, rows |-> <<row>>]

AllSourceDirs == {DATA_DIRECTORY, TRACKER_DATA_PATH, NNDSS_DATA_DIRECTORY}

\* <<tracker files, NNDSS files, existing directories>>: both sources good; a
\* tracker row without state or an NNDSS row without year (load() raises);
\* a missing directory; a directory without a CSV file; the two names of
\* leprosy, one in each source; a tracker row of a county next to an NNDSS
\* row of the same disease
DbInputs ==
    { << {DbTrackerFile(TrackerBaseRow)}, {DbNndssFile(NndssBaseRow)}, AllSourceDirs >>,
      << {DbTrackerFile([TrackerBaseRow EXCEPT !.state = Na])},
         {DbNndssFile(NndssBaseRow)}, AllSourceDirs >>,
      << {DbTrackerFile(TrackerBaseRow)},
         {DbNndssFile([NndssBaseRow EXCEPT !.year = Na])}, AllSourceDirs >>,
      << {}, {DbNndssFile(NndssBaseRow)}, {NNDSS_DATA_DIRECTORY} >>,
      << {}, {DbNndssFile(NndssBaseRow)}, {DATA_DIRECTORY, NNDSS_DATA_DIRECTORY} >>,
      << {}, {DbNndssFile(NndssBaseRow)}, AllSourceDirs >>,
      << {DbTrackerFile(TrackerBaseRow)}, {}, {DATA_DIRECTORY, TRACKER_DATA_PATH} >>,
      << {DbTrackerFile(TrackerBaseRow)}, {}, AllSourceDirs >>,
      << {DbTrackerFile([TrackerBaseRow EXCEPT !.disease_name = Str(<<"H", "a", "n", "s", "e", "n", "'", "s", " ", "D", "i", "s", "e", "a", "s", "e">>)])},
         {DbNndssFile([NndssBaseRow EXCEPT !.label = Str(<<"L", "e", "p", "r", "o", "s", "y", " ", "(", "H", "a", "n", "s", "e", "n", "'", "s", " ", "D", "i", "s", "e", "a", "s", "e", ")">>)])},
         AllSourceDirs >>,
      << {DbTrackerFile([TrackerBaseRow EXCEPT
                            !.disease_name = Str(<<"L", "e", "p", "r", "o", "s", "y", " ", "(", "H", "a", "n", "s", "e", "n", "'", "s", " ", "D", "i", "s", "e", "a", "s", "e", ")">>)])},
         {DbNndssFile([NndssBaseRow EXCEPT !.label = Str(<<"H", "a", "n", "s", "e", "n", "'", "s", " ", "D", "i", "s", "e", "a", "s", "e">>)])},
         AllSourceDirs >>,
      << {DbTrackerFile([TrackerBaseRow EXCEPT !.geo_unit = Str(<<"c", "o", "u", "n", "t", "y">>),
                                               !.geo_name = Str(<<"A", "d", "a", " ", "C", "o", "u", "n", "t", "y">>)])},
         {DbNndssFile([NndssBaseRow EXCEPT !.label = Str(<<"M", "e", "a", "s", "l", "e", "s">>)])},
         AllSourceDirs >> }

\* the weekly file published after NNDSS_Weekly_Data_20250108.csv
NextNndssFile ==
    [name |-> <<"N", "N", "D", "S", "S", "_", "W", "e", "e", "k", "l", "y", "_", "D", "a", "t", "a", "_", "2", "0", "2", "5", "0", "1", "1", "5", ".", "c", "s", "v">>,
     rows |-> <<[NndssBaseRow EXCEPT !.year = Num(2022), !.week = Num(2),
                                     !.cur = Str(<<"7">>)]>>]

\* a newer weekly file arrives in the NNDSS directory (once, next to the
\* good tracker and NNDSS files)
PublishSnapshot ==
    /\ trackerFiles = {DbTrackerFile(TrackerBaseRow)}
    /\ nndssFiles = {DbNndssFile(NndssBaseRow)}
    /\ sourceDirs = AllSourceDirs
    /\ nndssFiles' = nndssFiles \cup {NextNndssFile}
    /\ UNCHANGED <<arg, ret, trackerFiles, sourceDirs, result, db, threads, http>>

InitDb ==
    /\ arg = Na
    /\ ret = NoRet
    /\ result = NoResult
    /\ \E in \in DbInputs :
          trackerFiles = in[1] /\ nndssFiles = in[2] /\ sourceDirs = in[3]
    /\ db = NoDb
    /\ threads = [t \in Threads |-> IdleThread]
    /\ http = NoHttp

NextDb ==
    \/ PublishSnapshot
    \/ \E t \in Threads :
        \/ LoadBegin(t)
        \/ LoadDrop(t)
        \/ LoadCreate(t)
        \/ LoadSource(t)
        \/ LoadCreateIndexes(t)
        \/ LoadCreateMapping(t)
        \/ LoadSetInitialized(t)
        \/ LoadCount(t)
        \/ GetDiseasesBegin(t)
        \/ GetDiseaseNameBySlugBegin(t)
        \/ QueryAcquire(t)
        \/ GetDiseasesExecute(t)
        \/ GetDiseaseNameBySlugExecute(t)
        \/ GetStateCaseTotalsBegin(t)
        \/ GetStateCaseTotalsExecute(t)

SpecDb == InitDb /\ [][NextDb]_vars

----------------------------------------------------------------------------
(* app/etl/base.py: DataSourceTransformer.load() statement by statement     *)
(*                                                                          *)
(* result is [op, src, pc, steps, raised, returned, transformed, cols,      *)
(* rows]: pc is the next statement of load(), steps the statements          *)
(* executed so far, cols/rows the local df, transformed what transform()    *)
(* returned.                                                                *)

\* the local df of load()
LocalFrame == [cols |-> result.cols, rows |-> result.rows]

LoadFrame ==
    /\ UNCHANGED <<arg, ret, trackerFiles, nndssFiles, sourceDirs>>
    /\ ServiceUnchanged

\* the statement was executed and control moves to next with df = frame
Step(name, next, frame) ==
    result' = [result EXCEPT !.steps = Append(@, name), !.pc = next,
                             !.cols = frame.cols, !.rows = frame.rows]

StepTransform_no_empty_return ==
    /\ result.pc = "transform"
    /\ IF transformer_transform(result.src).raised
       THEN result' = [result EXCEPT !.steps = Append(@, "transform"),
                                     !.pc = "raised", !.raised = TRUE]
       ELSE result' = [result EXCEPT
                !.steps = Append(@, "transform"),
                !.pc = "apply_disease_aliases",
                !.transformed = [cols |-> transformer_transform(result.src).cols,
                                 rows |-> transformer_transform(result.src).rows],
                !.cols = transformer_transform(result.src).cols,
                !.rows = transformer_transform(result.src).rows]
    /\ LoadFrame

\* df = self.transform(); if df.empty: return df
StepTransform ==
    /\ result.pc = "transform"
    /\ IF transformer_transform(result.src).raised
       THEN result' = [result EXCEPT !.steps = Append(@, "transform"),
                                     !.pc = "raised", !.raised = TRUE]
       ELSE result' = [result EXCEPT
                !.steps = Append(@, "transform"),
                !.pc = IF FrameEmpty(transformer_transform(result.src))
                       THEN "returned" ELSE "apply_disease_aliases",
                !.returned = FrameEmpty(transformer_transform(result.src)),
                !.transformed = [cols |-> transformer_transform(result.src).cols,
                                 rows |-> transformer_transform(result.src).rows],
                !.cols = transformer_transform(result.src).cols,
                !.rows = transformer_transform(result.src).rows]
    /\ LoadFrame

\* df = self._apply_disease_aliases(df)
StepApplyDiseaseAliases ==
    /\ result.pc = "apply_disease_aliases"
    /\ Step("apply_disease_aliases", "generate_slugs", apply_disease_aliases(LocalFrame))
    /\ LoadFrame

\* df = self._generate_slugs(df)
StepGenerateSlugs ==
    /\ result.pc = "generate_slugs"
    /\ Step("generate_slugs", "tag_data_source", generate_slugs(LocalFrame))
    /\ LoadFrame

\* df = self._tag_data_source(df)
StepTagDataSource ==
    /\ result.pc = "tag_data_source"
    /\ Step("tag_data_source", "validate_schema", tag_data_source(LocalFrame, result.src))
    /\ LoadFrame

\* self._validate_schema(df): raises ValueError when there are errors
StepValidateSchema ==
    /\ result.pc = "validate_schema"
    /\ IF validate_dataframe(LocalFrame)
       THEN result' = [result EXCEPT !.steps = Append(@, "validate_schema"),
                                     !.pc = "raised", !.raised = TRUE]
       ELSE Step("validate_schema", "select_columns", LocalFrame)
    /\ LoadFrame

\* df = self._select_columns(df); return df
StepSelectColumns ==
    /\ result.pc = "select_columns"
    /\ result' = [result EXCEPT !.steps = Append(@, "select_columns"),
                                !.pc = "returned", !.returned = TRUE,
                                !.cols = select_columns(LocalFrame).cols,
                                !.rows = select_columns(LocalFrame).rows]
    /\ LoadFrame

\* a transformer of either source about to run load() on a source directory
InitLoad ==
    /\ arg = Na
    /\ ret = NoRet
    /\ \/ trackerFiles \in TrackerInputs /\ nndssFiles = {}
       \/ trackerFiles = {} /\ nndssFiles \in NndssInputs
    /\ sourceDirs \in SourceDirChoices(trackerFiles, nndssFiles)
    /\ result \in {[op |-> "load", src |-> s, pc |-> "transform", steps |-> <<>>,
                    raised |-> FALSE, returned |-> FALSE,
                    transformed |-> EmptyFrame, cols |-> {}, rows |-> <<>>] :
                      s \in { <<"t", "r", "a", "c", "k", "e", "r">>, <<"n", "n", "d", "s", "s">> }}
    /\ ServiceIdle

NextLoad ==
    \/ StepTransform
    \/ StepApplyDiseaseAliases
    \/ StepGenerateSlugs
    \/ StepTagDataSource
    \/ StepValidateSchema
    \/ StepSelectColumns

SpecLoad == InitLoad /\ [][NextLoad]_vars

----------------------------------------------------------------------------
(* app/middleware/auth.py: BasicAuthMiddleware                              *)
(*                                                                          *)
(* Here a string is the sequence of its code points.  http is               *)
(* [phase, config, request, response, handled]: the AuthConfig, the request *)
(* ([path, auth]: URL path and Authorization header, Na when absent),       *)
(* the response sent, and how often the downstream handler was invoked.     *)

\* str.lower() on the ASCII letters
ascii_lower(s) == [i \in 1..Len(s) |-> IF s[i] \in 65..90 THEN s[i] + 32 ELSE s[i]]

\* the index of the first occurrence of code point c in s, 0 if there is none
find_first(s, c) ==
    IF \E i \in 1..Len(s) : s[i] = c
    THEN CHOOSE i \in 1..Len(s) : s[i] = c /\ \A j \in 1..(i - 1) : s[j] # c
    ELSE 0

\* binascii's table_a2b_base64: the value of a base64 digit, 64 for any
\* other character
b64_value(c) ==
    IF c \in 65..90 THEN c - 65
    ELSE IF c \in 97..122 THEN c - 71
    ELSE IF c \in 48..57 THEN c + 4
    ELSE IF c = 43 THEN 62
    ELSE IF c = 47 THEN 63
    ELSE 64

\* binascii.a2b_base64 (not strict) after quad_pos digits of the current
\* group, leftchar holding the bits not yet written: [ok, bytes]
RECURSIVE a2b_base64(_, _, _, _, _)
a2b_base64(data, quad_pos, leftchar, pads, out) ==
    IF data = <<>> THEN [ok |-> quad_pos = 0, bytes |-> out]
    ELSE IF Head(data) = 61
    THEN IF quad_pos >= 2 /\ quad_pos + pads + 1 >= 4
         THEN [ok |-> TRUE, bytes |-> out]
         ELSE a2b_base64(Tail(data), quad_pos, leftchar,
                         IF quad_pos >= 2 THEN pads + 1 ELSE pads, out)
    ELSE IF b64_value(Head(data)) = 64
    THEN a2b_base64(Tail(data), quad_pos, leftchar, pads, out)
    ELSE IF quad_pos = 0
    THEN a2b_base64(Tail(data), 1, b64_value(Head(data)), 0, out)
    ELSE IF quad_pos = 1
    THEN a2b_base64(Tail(data), 2, b64_value(Head(data)) % 16, 0,
                    Append(out, leftchar * 4 + (b64_value(Head(data)) \div 16)))
    ELSE IF quad_pos = 2
    THEN a2b_base64(Tail(data), 3, b64_value(Head(data)) % 4, 0,
                    Append(out, leftchar * 16 + (b64_value(Head(data)) \div 4)))
    ELSE a2b_base64(Tail(data), 0, 0, 0,
                    Append(out, leftchar * 64 + b64_value(Head(data))))

\* base64.b64decode(s) of a str: a non-ASCII character is a ValueError,
\* as is binascii.Error
b64decode(s) ==
    IF \E i \in 1..Len(s) : s[i] > 127 THEN [ok |-> FALSE, bytes |-> <<>>]
    ELSE a2b_base64(s, 0, 0, 0, <<>>)

IsContinuation(b, k) == k <= Len(b) /\ b[k] \in 128..191

\* the number of bytes of the UTF-8 sequence that starts at b[1], 0 when it
\* is not well formed (overlong forms, surrogates and values above U+10FFFF
\* are not)
utf8_length(b) ==
    IF b[1] < 128 THEN 1
    ELSE IF b[1] \in 194..223 /\ IsContinuation(b, 2) THEN 2
    ELSE IF /\ b[1] \in 224..239 /\ IsContinuation(b, 2) /\ IsContinuation(b, 3)
            /\ (b[1] = 224 => b[2] >= 160)
            /\ (b[1] = 237 => b[2] <= 159)
    THEN 3
    ELSE IF /\ b[1] \in 240..244
            /\ IsContinuation(b, 2) /\ IsContinuation(b, 3) /\ IsContinuation(b, 4)
            /\ (b[1] = 240 => b[2] >= 144)
            /\ (b[1] = 244 => b[2] <= 143)
    THEN 4
    ELSE 0

\* the code point of a well-formed sequence of n bytes at b[1]
utf8_code_point(b, n) ==
    IF n = 1 THEN b[1]
    ELSE IF n = 2 THEN (b[1] - 192) * 64 + (b[2] - 128)
    ELSE IF n = 3 THEN (b[1] - 224) * 4096 + (b[2] - 128) * 64 + (b[3] - 128)
    ELSE (b[1] - 240) * 262144 + (b[2] - 128) * 4096 + (b[3] - 128) * 64 + (b[4] - 128)

\* bytes.decode("utf-8"): [ok, text]; not ok is UnicodeDecodeError
RECURSIVE utf8_decode(_, _)
utf8_decode(b, text) ==
    IF b = <<>> THEN [ok |-> TRUE, text |-> text]
    ELSE IF utf8_length(b) = 0 THEN [ok |-> FALSE, text |-> <<>>]
    ELSE utf8_decode(SubSeq(b, utf8_length(b) + 1, Len(b)),
                     Append(text, utf8_code_point(b, utf8_length(b))))

\* str.encode("utf-8") of one code point
utf8_bytes(c) ==
    IF c < 128 THEN <<c>>
    ELSE IF c < 2048 THEN <<192 + (c \div 64), 128 + (c % 64)>>
    ELSE IF c < 65536 THEN <<224 + (c \div 4096), 128 + ((c \div 64) % 64), 128 + (c % 64)>>
    ELSE <<240 + (c \div 262144), 128 + ((c \div 4096) % 64), 128 + ((c \div 64) % 64),
           128 + (c % 64)>>

RECURSIVE utf8_encode(_)
utf8_encode(s) ==
    IF s = <<>> THEN <<>> ELSE utf8_bytes(Head(s)) \o utf8_encode(Tail(s))

\* decoded.split(":", 1) unpacked into two names; <<>> is the ValueError
split_credentials(decoded) ==
    IF find_first(decoded, 58) = 0 THEN <<>>
    ELSE << SubSeq(decoded, 1, find_first(decoded, 58) - 1),
            SubSeq(decoded, find_first(decoded, 58) + 1, Len(decoded)) >>

\* base64.b64decode(credentials).decode("utf-8"), then the split
decode_credentials(raw) ==
    IF ~raw.ok THEN <<>>
    ELSE IF ~utf8_decode(raw.bytes, <<>>).ok THEN <<>>
    ELSE split_credentials(utf8_decode(raw.bytes, <<>>).text)

\* parse_basic_auth: <<username, password>>, or <<>> for None
parse_basic_auth(auth_header) ==
    IF find_first(auth_header, 32) = 0 THEN <<>>
    ELSE IF ascii_lower(SubSeq(auth_header, 1, find_first(auth_header, 32) - 1))
            # <<98, 97, 115, 105, 99>>
    THEN <<>>
    ELSE decode_credentials(b64decode(
             SubSeq(auth_header, find_first(auth_header, 32) + 1, Len(auth_header))))

\* secrets.compare_digest on bytes
compare_digest(a, b) == a = b

verify_credentials_username_only(username, password, expected_username, expected_password) ==
    compare_digest(utf8_encode(username), utf8_encode(expected_username))

\* verify_credentials
verify_credentials(username, password, expected_username, expected_password) ==
    /\ compare_digest(utf8_encode(username), utf8_encode(expected_username))
    /\ compare_digest(utf8_encode(password), utf8_encode(expected_password))

\* the three tests of dispatch that end in "return await call_next(request)"
authorized(config, request) ==
    \/ ~config.enabled
    \/ request.path \in config.excluded_paths
    \/ /\ ~IsNa(request.auth)
       /\ request.auth.v # <<>>
       /\ parse_basic_auth(request.auth.v) # <<>>
       /\ verify_credentials(parse_basic_auth(request.auth.v)[1],
                             parse_basic_auth(request.auth.v)[2],
                             config.username, config.password)

NoResponse == [status_code |-> 0, headers |-> {}]

\* Response("Unauthorized", 401, {"WWW-Authenticate": 'Basic realm="Staging Access"'})
Unauthorized ==
    [status_code |-> 401,
     headers |-> {<<"WWW-Authenticate", "Basic realm=\"Staging Access\"">>}]

AuthFrame ==
    UNCHANGED <<arg, ret, trackerFiles, nndssFiles, sourceDirs, result, db, threads>>

\* dispatch up to "await call_next(request)" or to the 401 response
Dispatch ==
    /\ http.phase = "received"
    /\ http' = IF authorized(http.config, http.request)
               THEN [http EXCEPT !.phase = "call_next"]
               ELSE [http EXCEPT !.phase = "responded", !.response = Unauthorized]
    /\ AuthFrame

\* call_next(request): the downstream handler answers, dispatch returns its
\* response
CallNext ==
    /\ http.phase = "call_next"
    /\ http' = [http EXCEPT !.phase = "responded", !.handled = @ + 1,
                            !.response = [status_code |-> 200, headers |-> {}]]
    /\ AuthFrame

----------------------------------------------------------------------------
(* Configurations and requests *)

\* the credentials of the tests, a pair whose base64 form is padded, and the
\* default settings (user "admin", empty password)
AuthCredentials ==
    { << <<117, 115, 101, 114>>, <<112, 97, 115, 115>> >>, << <<97, 100, 109, 105, 110>>, <<115, 51>> >>, << <<97, 100, 109, 105, 110>>, <<>> >> }

AuthConfigs ==
    {[enabled |-> e, username |-> c[1], password |-> c[2],
      excluded_paths |-> { <<47, 104, 101, 97, 108, 116, 104>> }] :
        e \in BOOLEAN, c \in AuthCredentials}

RequestPaths == { <<47, 104, 101, 97, 108, 116, 104>>, <<47>>, <<47, 97, 112, 105, 47, 116, 101, 115, 116>>, <<47, 104, 101, 97, 108, 116, 104, 47>> }

\* Authorization headers, each with the credentials it carries (<<>> when it
\* carries none)
AuthHeaders ==
    { [auth |-> Na, carries |-> <<>>],
      \* make_basic_auth_header("user", "pass")
      [auth |-> Str(<<66, 97, 115, 105, 99, 32, 100, 88, 78, 108, 99, 106, 112, 119, 89, 88, 78, 122>>),
       carries |-> <<<<117, 115, 101, 114>>, <<112, 97, 115, 115>>>>],
      \* lower-case scheme
      [auth |-> Str(<<98, 97, 115, 105, 99, 32, 100, 88, 78, 108, 99, 106, 112, 119, 89, 88, 78, 122>>),
       carries |-> <<<<117, 115, 101, 114>>, <<112, 97, 115, 115>>>>],
      \* upper-case scheme
      [auth |-> Str(<<66, 65, 83, 73, 67, 32, 100, 88, 78, 108, 99, 106, 112, 119, 89, 88, 78, 122>>),
       carries |-> <<<<117, 115, 101, 114>>, <<112, 97, 115, 115>>>>],
      \* wrong user
      [auth |-> Str(<<66, 97, 115, 105, 99, 32, 100, 51, 74, 118, 98, 109, 100, 49, 99, 50, 86, 121, 79, 110, 66, 104, 99, 51, 77, 61>>),
       carries |-> <<<<119, 114, 111, 110, 103, 117, 115, 101, 114>>, <<112, 97, 115, 115>>>>],
      \* wrong password
      [auth |-> Str(<<66, 97, 115, 105, 99, 32, 100, 88, 78, 108, 99, 106, 112, 51, 99, 109, 57, 117, 90, 51, 66, 104, 99, 51, 77, 61>>),
       carries |-> <<<<117, 115, 101, 114>>, <<119, 114, 111, 110, 103, 112, 97, 115, 115>>>>],
      \* password with a colon
      [auth |-> Str(<<66, 97, 115, 105, 99, 32, 100, 88, 78, 108, 99, 106, 112, 119, 89, 88, 78, 122, 79, 110, 103, 61>>),
       carries |-> <<<<117, 115, 101, 114>>, <<112, 97, 115, 115, 58, 120>>>>],
      \* empty password
      [auth |-> Str(<<66, 97, 115, 105, 99, 32, 89, 87, 82, 116, 97, 87, 52, 54>>),
       carries |-> <<<<97, 100, 109, 105, 110>>, <<>>>>],
      \* empty user and password
      [auth |-> Str(<<66, 97, 115, 105, 99, 32, 79, 103, 61, 61>>),
       carries |-> <<<<>>, <<>>>>],
      \* no colon
      [auth |-> Str(<<66, 97, 115, 105, 99, 32, 100, 88, 78, 108, 99, 110, 66, 104, 99, 51, 77, 61>>),
       carries |-> <<>>],
      \* Bearer
      [auth |-> Str(<<66, 101, 97, 114, 101, 114, 32, 116, 111, 107, 101, 110>>),
       carries |-> <<>>],
      \* other scheme with good credentials
      [auth |-> Str(<<68, 105, 103, 101, 115, 116, 32, 100, 88, 78, 108, 99, 106, 112, 119, 89, 88, 78, 122>>),
       carries |-> <<>>],
      \* no space
      [auth |-> Str(<<66, 97, 115, 105, 99>>),
       carries |-> <<>>],
      \* no credentials
      [auth |-> Str(<<66, 97, 115, 105, 99, 32>>),
       carries |-> <<>>],
      \* empty header
      [auth |-> Str(<<>>),
       carries |-> <<>>],
      \* not base64
      [auth |-> Str(<<66, 97, 115, 105, 99, 32, 33, 33, 105, 110, 118, 97, 108, 105, 100, 33, 33>>),
       carries |-> <<>>],
      \* padded credentials
      [auth |-> Str(<<66, 97, 115, 105, 99, 32, 89, 87, 82, 116, 97, 87, 52, 54, 99, 122, 77, 61>>),
       carries |-> <<<<97, 100, 109, 105, 110>>, <<115, 51>>>>],
      \* padding missing
      [auth |-> Str(<<66, 97, 115, 105, 99, 32, 89, 87, 82, 116, 97, 87, 52, 54, 99, 122, 77>>),
       carries |-> <<>>],
      \* padding too short
      [auth |-> Str(<<66, 97, 115, 105, 99, 32, 89, 87, 82, 116, 97, 87, 52, 54, 99, 122, 78>>),
       carries |-> <<>>],
      \* one data character
      [auth |-> Str(<<66, 97, 115, 105, 99, 32, 100>>),
       carries |-> <<>>],
      \* text after the padding
      [auth |-> Str(<<66, 97, 115, 105, 99, 32, 89, 87, 82, 116, 97, 87, 52, 54, 99, 122, 77, 61, 106, 117, 110, 107>>),
       carries |-> <<<<97, 100, 109, 105, 110>>, <<115, 51>>>>],
      \* padding in the middle
      [auth |-> Str(<<66, 97, 115, 105, 99, 32, 89, 87, 82, 61, 116, 97, 87, 52, 54, 99, 122, 77, 61>>),
       carries |-> <<>>],
      \* two spaces
      [auth |-> Str(<<66, 97, 115, 105, 99, 32, 32, 100, 88, 78, 108, 99, 106, 112, 119, 89, 88, 78, 122>>),
       carries |-> <<<<117, 115, 101, 114>>, <<112, 97, 115, 115>>>>],
      \* characters outside the alphabet
      [auth |-> Str(<<66, 97, 115, 105, 99, 32, 100, 88, 78, 108, 45, 99, 106, 112, 119, 89, 88, 78, 122>>),
       carries |-> <<<<117, 115, 101, 114>>, <<112, 97, 115, 115>>>>],
      \* byte FF
      [auth |-> Str(<<66, 97, 115, 105, 99, 32, 47, 119, 61, 61>>),
       carries |-> <<>>],
      \* two-byte character
      [auth |-> Str(<<66, 97, 115, 105, 99, 32, 100, 88, 80, 68, 113, 88, 73, 54, 99, 71, 70, 122, 99, 119, 61, 61>>),
       carries |-> <<<<117, 115, 233, 114>>, <<112, 97, 115, 115>>>>],
      \* three-byte character
      [auth |-> Str(<<66, 97, 115, 105, 99, 32, 52, 111, 75, 115, 100, 88, 78, 108, 99, 106, 112, 119, 89, 88, 78, 122>>),
       carries |-> <<<<8364, 117, 115, 101, 114>>, <<112, 97, 115, 115>>>>],
      \* overlong encoding
      [auth |-> Str(<<66, 97, 115, 105, 99, 32, 119, 76, 112, 49, 99, 50, 86, 121, 79, 110, 66, 104, 99, 51, 77, 61>>),
       carries |-> <<>>],
      \* non-ASCII header
      [auth |-> Str(<<66, 97, 115, 105, 99, 32, 100, 88, 78, 108, 99, 106, 112, 119, 89, 88, 78, 122, 233>>),
       carries |-> <<>>],
      \* non-ASCII header before
      [auth |-> Str(<<66, 97, 115, 105, 99, 32, 233, 100, 88, 78, 108, 99, 106, 112, 119, 89, 88, 78, 122>>),
       carries |-> <<>>] }

Requests ==
    {[path |-> p, auth |-> h.auth, carries |-> h.carries] :
        p \in RequestPaths, h \in AuthHeaders}

InitAuth ==
    /\ arg = Na
    /\ ret = NoRet
    /\ EtlIdle
    /\ db = NoDb
    /\ threads = NoThreads
    /\ http \in {[phase |-> "received", config |-> c, request |-> r,
                  response |-> NoResponse, handled |-> 0] :
                    c \in AuthConfigs, r \in Requests}

NextAuth == Dispatch \/ CallNext

SpecAuth == InitAuth /\ [][NextAuth]_vars

----------------------------------------------------------------------------
(* Claims *)

\* the text before / after the first comma of a label, trimmed
LabelBaseText(l) ==
    IF Contains(l, ",")
    THEN str_strip(SubSeq(l, 1, FirstComma(l) - 1), SpaceChars)
    ELSE str_strip(l, SpaceChars)

LabelSubtypeText(l) ==
    IF Contains(l, ",")
    THEN str_strip(SubSeq(l, FirstComma(l) + 1, Len(l)), SpaceChars)
    ELSE <<>>

AggregateSlugs == {slugify(Str(a)) : a \in AGGREGATE_SUBTYPES}

\* the lexicographically greatest file name of each state directory
LatestByName ==
    {f \in trackerFiles :
        \A g \in trackerFiles : g.dir = f.dir => ~StrLt(f.name, g.name)}

\* the cells a tracker row carries unchanged from its file to the output
\* (state is not one of them: a file may lack the column)
SourceCells(row) ==
    <<row["report_period_start"], row["disease_name"], row["count"]>>

RowsOfFiles(files) == UNION {{f} \X DOMAIN f.rows : f \in files}

\* C1: TrackerTransformer selects exactly one file per state directory, the
\* one with the lexicographically greatest file name, and transform()
\* contains the rows of the selected files and no row of any other file.
C1_LatestFilePerState ==
    (result.op = "transform" /\ result.src = <<"t", "r", "a", "c", "k", "e", "r">>) =>
        /\ Len(result.selected) = Cardinality({f.dir : f \in trackerFiles})
        /\ \A f \in LatestByName :
               Cardinality({k \in DOMAIN result.selected :
                               result.selected[k] = PathOf(f)}) = 1
        /\ \A f \in trackerFiles \ LatestByName :
               \A k \in DOMAIN result.selected : result.selected[k] # PathOf(f)
        /\ ~result.raised =>
               \A cells \in {SourceCells(p[1].rows[p[2]]) : p \in RowsOfFiles(trackerFiles)} :
                   Cardinality({i \in DOMAIN result.rows :
                                   SourceCells(result.rows[i]) = cells})
                   = Cardinality({p \in RowsOfFiles({f \in LatestByName : f.readable}) :
                                     SourceCells(p[1].rows[p[2]]) = cells})
        /\ ~result.raised =>
               Len(result.rows) = Cardinality(RowsOfFiles({f \in LatestByName : f.readable}))

C1_Witness ==
    /\ result.op = "transform"
    /\ result.src = <<"t", "r", "a", "c", "k", "e", "r">>
    /\ \E f, g \in trackerFiles :
           /\ f.dir = g.dir
           /\ f.name = <<"2", "0", "2", "5", "1", "1", "0", "1", "_", "b", ".", "c", "s", "v">>
           /\ g.name = <<"2", "0", "2", "5", "1", "1", "0", "7", "-", "a", ".", "c", "s", "v">>
           /\ f.readable /\ g.readable
           /\ f.rows[1]["count"] = Num(5)
           /\ g.rows[1]["count"] = Num(10)
    /\ Len(result.rows) = 1
    /\ result.rows[1]["count"] = Num(10)

\* C2: every row in the output of NNDSSTransformer.transform() and load()
\* has geo_unit "state"; no row of a region or national reporting area
\* survives, whatever its count or label.
C2_NndssStateOnly ==
    (result.op \in {"transform", "load"} /\ result.src = <<"n", "n", "d", "s", "s">> /\ ~result.raised) =>
        \A i \in DOMAIN result.rows :
            /\ result.rows[i]["geo_unit"] = Str(<<"s", "t", "a", "t", "e">>)
            /\ ~IsNa(result.rows[i]["geo_name"]) =>
                   str_upper(result.rows[i]["geo_name"].v) \notin REGIONS

C2_Witness ==
    /\ result.op = "transform"
    /\ result.src = <<"n", "n", "d", "s", "s">>
    /\ \E f \in nndssFiles :
           /\ f.name = result.selected[1]
           /\ f.rows = <<[NndssBaseRow EXCEPT !.area = Str(<<"U", "S", " ", "R", "E", "S", "I", "D", "E", "N", "T", "S">>)], NndssBaseRow>>
    /\ Len(result.rows) = 1

\* C3: every row emitted by load() of either transformer has a non-null
\* count >= 0; a source row whose count is missing or unparseable is absent
\* from the output.
C3_CountsNonNegative ==
    (result.op = "load" /\ ~result.raised) =>
        \A i \in DOMAIN result.rows :
            /\ result.rows[i]["count"].t = "int"
            /\ result.rows[i]["count"].v >= 0

\* C4: whenever load() returns a non-empty result, every returned row has
\* every column of REQUIRED_COLUMNS and a non-null value in every column
\* that is not declared nullable.
C4_SchemaComplete ==
    (result.op = "load" /\ ~result.raised /\ result.rows # <<>>) =>
        /\ Range(REQUIRED_COLUMNS) \subseteq result.cols
        /\ \A i \in DOMAIN result.rows :
               /\ Range(REQUIRED_COLUMNS) \subseteq DOMAIN result.rows[i]
               /\ \A c \in Range(REQUIRED_COLUMNS) \ NULLABLE_COLUMNS :
                      ~IsNa(result.rows[i][c])

C4_Witness ==
    /\ result.op = "load"
    /\ result.src = <<"t", "r", "a", "c", "k", "e", "r">>
    /\ ~result.raised
    /\ Len(result.rows) = 2
    /\ IsNa(result.rows[1]["count"])

\* C5: for measles, meningococcus and pertussis, a tracker row with the
\* tracker name and an NNDSS row whose label has the corresponding NNDSS
\* base name, with or without a subtype part, come out of load() with the
\* same disease_slug, the tracker name.
C5_SlugConvergence ==
    (result.op = "load" /\ ~result.raised) =>
        \A i \in DOMAIN result.rows : \A m \in TRACKER_TO_NNDSS :
            LET row == result.rows[i]
                original == row["original_disease_name"]
            IN  /\ (result.src = <<"t", "r", "a", "c", "k", "e", "r">> /\ original = Str(m[1])) =>
                       row["disease_slug"] = Str(m[1])
                /\ (result.src = <<"n", "n", "d", "s", "s">> /\ ~IsNa(original)
                        /\ LabelBaseText(original.v) = m[2]) =>
                       row["disease_slug"] = Str(m[1])

C5_Witness ==
    /\ result.op = "load"
    /\ result.src = <<"n", "n", "d", "s", "s">>
    /\ ~result.raised
    /\ Len(result.rows) = 2
    /\ result.rows[1]["original_disease_name"] = Str(<<"M", "e", "n", "i", "n", "g", "o", "c", "o", "c", "c", "a", "l", " ", "d", "i", "s", "e", "a", "s", "e", ",", " ", "S", "e", "r", "o", "g", "r", "o", "u", "p", " ", "B">>)
    /\ result.rows[1]["disease_slug"] = Str(<<"m", "e", "n", "i", "n", "g", "o", "c", "o", "c", "c", "u", "s">>)
    /\ result.rows[2]["disease_slug"] = Str(<<"p", "e", "r", "t", "u", "s", "s", "i", "s">>)

\* C6: _parse_nndss_label returns (base, subtype): base is the trimmed text
\* before the first comma; subtype is null when there is no comma, when the
\* text after it is empty or when that text slugifies to a member of the
\* aggregate set; otherwise it is that text without the serogroup prefix
\* and suffix, mapped through the canonicalization table.
C6_LabelParsedBySlug ==
    (ret.fn = "_parse_nndss_label" /\ ~IsNa(arg)) =>
        LET text == LabelSubtypeText(arg.v)
            cut == StripSerogroupSuffix(StripSubtypePrefix(text))
            canon == DictGet(NNDSS_SUBTYPE_NORMALIZATION, str_lower(cut), cut)
        IN  /\ ret.val[1] = Str(LabelBaseText(arg.v))
            /\ ret.val[2] = IF text = <<>> \/ slugify(Str(text)) \in AggregateSlugs
                                \/ canon = <<>>
                             THEN Na
                             ELSE Str(canon)

HasAlnum(s) ==
    \E i \in 1..Len(s) : s[i] \in UpperChars \cup LowerChars \cup DigitChars

WellFormedSlug(s) ==
    /\ \A i \in 1..Len(s) : s[i] \notin UpperChars \cup SpaceChars
    /\ s[1] # "-"
    /\ s[Len(s)] # "-"
    /\ \A i \in 1..(Len(s) - 1) : ~(s[i] = "-" /\ s[i + 1] = "-")

\* C9: slugify is idempotent on every string with a non-null slug; a slug
\* has no uppercase letter, no whitespace, no leading or trailing hyphen and
\* no two consecutive hyphens; null, empty, whitespace-only and
\* punctuation-only input gives null.
C9_SlugIdempotent ==
    /\ ret.fn = "slugify" =>
           /\ (IsNa(arg) \/ ~HasAlnum(arg.v)) => IsNa(ret.val)
           /\ ~IsNa(ret.val) => WellFormedSlug(ret.val.v)
    /\ (ret.fn = "slugify_again" /\ ~IsNa(ret.val[1])) => ret.val[2] = ret.val[1]

C9_Witness ==
    /\ ret.fn = "slugify_again"
    /\ ~IsNa(ret.val[1])
    /\ arg.v = <<"B", "_", " ", "a">>

NationalSlugs == {slugify(Str(n)) : n \in NATIONAL_AREAS}

RegionSlugs == {slugify(Str(n)) : n \in REGIONS \ NATIONAL_AREAS}

\* C10: classify_geo_unit gives the same answer for all casing and
\* punctuation variants of a reporting area: national for every variant of a
\* national name, region for every variant of a Census region name or
\* US territories, state for anything else.
C10_GeoVariantsClassified ==
    ret.fn = "classify_geo_unit" =>
        ret.val = IF slugify(arg) \in NationalSlugs THEN <<"n", "a", "t", "i", "o", "n", "a", "l">>
                  ELSE IF slugify(arg) \in RegionSlugs THEN <<"r", "e", "g", "i", "o", "n">>
                  ELSE <<"s", "t", "a", "t", "e">>

\* C7: for every year y, get_mmwr_week_start(y, 1) is the Sunday beginning
\* the first Sunday-to-Saturday week with at least four days in y, so it
\* lies between Dec 29 of y-1 and Jan 4 of y inclusive.
C7_Week1HasFourDays ==
    (ret.fn = "get_mmwr_week_start" /\ arg[2] = 1) =>
        /\ weekday(ret.val) = 6
        /\ Jan1Ordinal(arg[1]) - 3 <= ret.val
        /\ ret.val <= Jan1Ordinal(arg[1]) + 3

\* C8: for every year and week 1..52, week_end - week_start is 6 days,
\* consecutive week starts are 7 days apart, every week start is a Sunday
\* and every week end a Saturday.
C8_WeekArithmetic ==
    /\ ret.fn = "get_mmwr_week_start" => weekday(ret.val) = 6
    /\ ret.fn = "get_mmwr_week_end" =>
           /\ ret.val[2] - ret.val[1] = 6
           /\ weekday(ret.val[2]) = 5
    /\ ret.fn = "next_week_start" => ret.val[2] - ret.val[1] = 7

C8_Witness ==
    /\ ret.fn = "next_week_start"
    /\ arg[2] = 52
    /\ weekday(Jan1Ordinal(arg[1])) = 5

\* the first Sunday on or after the day d
FirstSundayFrom(d) == CHOOSE s \in d..(d + 6) : weekday(s) = 6

\* Sunday, Monday, Tuesday or Wednesday
SundayToWednesday(d) == weekday(d) \in {6, 0, 1, 2}

\* C18: get_mmwr_week_start(y, 1) is the first Sunday on or after January 1
\* when January 1 is a Sunday, Monday, Tuesday or Wednesday, and the Sunday
\* one week after that first Sunday when January 1 is a Thursday, Friday or
\* Saturday.
C18_Week1ByWeekday ==
    (ret.fn = "get_mmwr_week_start" /\ arg[2] = 1) =>
        ret.val = IF SundayToWednesday(Jan1Ordinal(arg[1]))
                  THEN FirstSundayFrom(Jan1Ordinal(arg[1]))
                  ELSE FirstSundayFrom(Jan1Ordinal(arg[1])) + 7

----------------------------------------------------------------------------
(* DiseaseDatabase: loading and querying *)

IsQuery(t) ==
    threads[t].call \in {"get_diseases", "get_disease_name_by_slug", "get_state_case_totals"}

\* the thread ran load_all_sources to its end (not the early return)
LoadCompleted(t) ==
    /\ threads[t].call = "load_all_sources"
    /\ threads[t].pc = "done"
    /\ threads[t].ret.status = "returned"
    /\ threads[t].k > Len(list_sources)

\* load() of the source raised in _validate_schema
ValidationFails(source_name) ==
    /\ ~transformer_transform(source_name).raised
    /\ transformer_load(source_name).raised

\* C11: once _load_source has seen load() raise a schema validation error
\* for a source, load_all_sources does not go on to mark the database
\* initialized and to complete.
C11_ValidationAbortsLoad ==
    \A t \in Threads :
        (/\ threads[t].call = "load_all_sources"
         /\ \E s \in threads[t].caught : ValidationFails(s))
        => /\ threads[t].pc \notin {"count"}
           /\ ~LoadCompleted(t)

\* the source has no directory or no CSV file in it
NothingToLoad(source_name) ==
    IF source_name = <<"t", "r", "a", "c", "k", "e", "r">>
    THEN ~fs_exists(DATA_DIRECTORY) \/ ~fs_exists(TRACKER_DATA_PATH) \/ trackerFiles = {}
    ELSE ~fs_exists(NNDSS_DATA_DIRECTORY) \/ nndssFiles = {}

RowsOfSource(rows, source_name) ==
    SelectSeq(rows, LAMBDA r : r["data_source"] = Str(source_name))

\* C12: for a source without directory or without CSV file, transform() and
\* load() return an empty frame and do not raise; a load_all_sources that
\* ran to its end logged no error for that source, inserted no row of it,
\* inserted the rows load() returned for every other source it logged no
\* error for, and left the database initialized.
C12_MissingSourceSkipped ==
    \A k \in DOMAIN list_sources :
        NothingToLoad(list_sources[k]) =>
            /\ ~transformer_transform(list_sources[k]).raised
            /\ transformer_transform(list_sources[k]).rows = <<>>
            /\ ~transformer_load(list_sources[k]).raised
            /\ transformer_load(list_sources[k]).rows = <<>>
            /\ RowsOfSource(db.disease_data, list_sources[k]) = <<>>
            /\ \A t \in Threads :
                  LoadCompleted(t) =>
                      /\ db.initialized
                      /\ list_sources[k] \notin threads[t].caught
                      /\ threads[t].inserted[k] = 0
                      /\ \A j \in DOMAIN list_sources :
                            (j # k /\ list_sources[j] \notin threads[t].caught) =>
                                threads[t].inserted[j] =
                                    Len(transformer_load(list_sources[j]).rows)

C12_Witness ==
    \E t \in Threads, k, j \in DOMAIN list_sources :
        /\ LoadCompleted(t)
        /\ ~fs_exists(source_path(list_sources[k]))
        /\ threads[t].inserted[k] = 0
        /\ threads[t].inserted[j] > 0
        /\ RowsOfSource(db.disease_data, list_sources[j]) # <<>>

\* the rows a load that ran alone to its end leaves in disease_data
SourceRows(source_name) ==
    IF fs_exists(source_path(source_name)) /\ ~transformer_load(source_name).raised
    THEN transformer_load(source_name).rows
    ELSE <<>>

CompletedTable == SourceRows(list_sources[1]) \o SourceRows(list_sources[2])

\* C15: a query that executed its SELECT read disease_data exactly as a
\* completed load leaves it: the table existed and held all rows of all
\* sources, never the rows of a load still under way.
C15_QueriesSeeCompleteTable ==
    \A t \in Threads :
        (IsQuery(t) /\ threads[t].executed > 0) =>
            /\ threads[t].ret.status = "returned"
            /\ threads[t].seen.table
            /\ threads[t].seen.rows = CompletedTable

\* C16: while the database is not initialized, every query call has
\* returned its empty default ([] or None) without executing a SELECT.
C16_UninitializedQueriesEmpty ==
    ~db.initialized =>
        \A t \in Threads :
            IsQuery(t) =>
                /\ threads[t].pc = "done"
                /\ threads[t].executed = 0
                /\ threads[t].ret.status = "returned"
                /\ threads[t].ret.val =
                      IF threads[t].call = "get_disease_name_by_slug" THEN Na ELSE <<>>

C16_Witness ==
    /\ ~db.initialized
    /\ db.disease_data # <<>>
    /\ \E t \in Threads : threads[t].call = "get_diseases" /\ threads[t].pc = "done"
    /\ \E t \in Threads : threads[t].call = "load_all_sources" /\ threads[t].pc = "sources"

\* the request is subject to authentication: auth enabled, path not excluded
AuthRequired == http.config.enabled /\ http.request.path \notin http.config.excluded_paths

\* the Authorization header carries exactly the configured credentials
CarriesConfigured ==
    http.request.carries = <<http.config.username, http.config.password>>

\* C17: with auth enabled and a path that is not excluded, the handler is
\* invoked only for a Basic header whose decoded username and password equal
\* the configured ones, and every other such request is answered 401 with a
\* WWW-Authenticate: Basic header without the handler being invoked; excluded
\* paths and all requests with auth disabled are forwarded to the handler.
C17_BasicAuthGate ==
    /\ (AuthRequired /\ http.handled > 0) => CarriesConfigured
    /\ (AuthRequired /\ ~CarriesConfigured /\ http.phase = "responded") =>
           /\ http.response.status_code = 401
           /\ \E h \in http.response.headers :
                  h[1] = "WWW-Authenticate" /\ h[2] = "Basic realm=\"Staging Access\""
           /\ http.handled = 0
    /\ (http.phase \in {"call_next", "responded"} /\ ~AuthRequired) =>
           /\ http.phase = "responded" => http.handled = 1
           /\ http.response # Unauthorized

C17_Witness ==
    /\ AuthRequired
    /\ CarriesConfigured
    /\ http.request.auth.v[1] = 98
    /\ http.phase = "responded"
    /\ http.handled = 1
    /\ http.response.status_code = 200

\* the disease label of a source row with the cells that identify the row
\* in the output: as a tracker file holds them, as an NNDSS file holds them,
\* and as an emitted row holds them
TrackerLabelCells(row) ==
    <<row["disease_name"], row["count"], row["report_period_start"]>>

NndssLabelCells(row) == <<row.label, row.area>>

EmittedLabelCells(row) ==
    IF result.src = <<"t", "r", "a", "c", "k", "e", "r">>
    THEN <<row["original_disease_name"], row["count"], row["report_period_start"]>>
    ELSE <<row["original_disease_name"], row["geo_name"]>>

\* the label cells of the rows of the files the transformer selected
SourceLabelCells ==
    IF result.src = <<"t", "r", "a", "c", "k", "e", "r">>
    THEN {TrackerLabelCells(p[1].rows[p[2]]) :
             p \in RowsOfFiles({f \in LatestByName : f.readable})}
    ELSE {NndssLabelCells(p[1].rows[p[2]]) :
             p \in RowsOfFiles({f \in nndssFiles : <<f.name>> = result.selected})}

\* what transform() returned for the source of the result
Transformed ==
    IF result.src = <<"t", "r", "a", "c", "k", "e", "r">> THEN tracker_transform(trackerFiles)
    ELSE nndss_transform(nndssFiles)

\* C13: every row emitted by load() has a non-null original_disease_name
\* that is the unmodified disease label of a source row of the selected
\* files (tracker disease_name, NNDSS Label), and it is the value transform()
\* gave the row: the steps of load() leave it unchanged.
C13_OriginalNamePreserved ==
    (result.op = "load" /\ ~result.raised) =>
        /\ \A i \in DOMAIN result.rows :
               /\ ~IsNa(result.rows[i]["original_disease_name"])
               /\ EmittedLabelCells(result.rows[i]) \in SourceLabelCells
        /\ Len(result.rows) = Len(Transformed.rows)
        /\ \A i \in DOMAIN result.rows :
               result.rows[i]["original_disease_name"] =
                   Transformed.rows[i]["original_disease_name"]

C13_Witness ==
    /\ result.op = "load"
    /\ ~result.raised
    /\ \E i \in DOMAIN result.rows :
           /\ result.rows[i]["original_disease_name"] = Str(<<"H", "a", "n", "s", "e", "n", "'", "s", " ", "D", "i", "s", "e", "a", "s", "e">>)
           /\ result.rows[i]["disease_name"] = Str(<<"L", "e", "p", "r", "o", "s", "y", " ", "(", "H", "a", "n", "s", "e", "n", "'", "s", " ", "D", "i", "s", "e", "a", "s", "e", ")">>)
    /\ \E f \in trackerFiles :
           f.readable /\ f.rows[1]["disease_name"] = Str(<<"H", "a", "n", "s", "e", "n", "'", "s", " ", "D", "i", "s", "e", "a", "s", "e">>)

\* C14: every row load() hands to the canonical table, from either source,
\* has report_period_end >= report_period_start, and for NNDSS rows the end
\* is exactly 6 days after the start.
C14_PeriodOrdered ==
    (result.op = "load" /\ ~result.raised) =>
        \A i \in DOMAIN result.rows :
            /\ ~IsNa(result.rows[i]["report_period_start"])
            /\ ~IsNa(result.rows[i]["report_period_end"])
            /\ result.rows[i]["report_period_end"].v >=
                   result.rows[i]["report_period_start"].v
            /\ result.src = <<"n", "n", "d", "s", "s">> =>
                   result.rows[i]["report_period_end"].v =
                       result.rows[i]["report_period_start"].v + 6

\* the rows of the NNDSS file the transformer selected
SelectedNndssRows ==
    IF result.selected = <<>> THEN <<>>
    ELSE (CHOOSE f \in nndssFiles : <<f.name>> = result.selected).rows

\* the (year, week) of the row is missing or its week lies outside 1..53
InvalidWeek(row) ==
    \/ IsNa(row.year)
    \/ IsNa(row.week)
    \/ row.week.v \notin 1..53

\* the row passes the count and geo_unit filters of transform()
PassesFilters(row) ==
    /\ ~IsNa(nndss_map_row(row).count)
    /\ nndss_map_row(row).geo_unit = Str(<<"s", "t", "a", "t", "e">>)

\* C19: an NNDSS row whose (year, week) is missing or has a week outside
\* 1..53 gets a null report period without an exception, is absent from the
\* output of transform() and load(), and the other rows of the file are
\* still emitted: the load does not fail.
C19_InvalidWeekRowsDropped ==
    (/\ result.op \in {"transform", "load"}
     /\ result.src = <<"n", "n", "d", "s", "s">>
     /\ \E k \in DOMAIN SelectedNndssRows : InvalidWeek(SelectedNndssRows[k])) =>
        /\ \A k \in DOMAIN SelectedNndssRows :
               InvalidWeek(SelectedNndssRows[k]) =>
                   /\ IsNa(parse_dates(SelectedNndssRows[k]).report_period_start)
                   /\ IsNa(parse_dates(SelectedNndssRows[k]).report_period_end)
        /\ ~result.raised
        /\ \A i \in DOMAIN result.rows :
               ~IsNa(result.rows[i]["report_period_start"])
        /\ Len(result.rows) =
               Cardinality({k \in DOMAIN SelectedNndssRows :
                               /\ ~InvalidWeek(SelectedNndssRows[k])
                               /\ PassesFilters(SelectedNndssRows[k])})

\* the selected tracker files whose read succeeded
ReadSelected == {f \in LatestByName : f.readable}

\* C20: when the read of a selected tracker file fails, transform() does not
\* raise and returns exactly the transformation of the selected files that
\* were read; it returns an empty frame when none was read.
C20_UnreadableFileSkipped ==
    (/\ result.op = "transform"
     /\ result.src = <<"t", "r", "a", "c", "k", "e", "r">>
     /\ \E f \in LatestByName : ~f.readable) =>
        /\ ~result.raised
        /\ result.rows = tracker_transform(ReadSelected).rows
        /\ result.cols = tracker_transform(ReadSelected).cols
        /\ Len(result.rows) = Cardinality(RowsOfFiles(ReadSelected))
        /\ ReadSelected = {} => result.rows = <<>>

C20_Witness ==
    /\ result.op = "transform"
    /\ result.src = <<"t", "r", "a", "c", "k", "e", "r">>
    /\ ~result.raised
    /\ \E f, g \in LatestByName :
           /\ ~f.readable
           /\ g.readable
           /\ g.rows[1]["count"] = Num(10)
    /\ Len(result.rows) = 1
    /\ result.rows[1]["count"] = Num(10)

----------------------------------------------------------------------------
(* DataSourceTransformer.load(): order of the steps *)

\* the position of a step in the steps executed so far, 0 if it was not
StepIndex(name) ==
    IF \E i \in DOMAIN result.steps : result.steps[i] = name
    THEN CHOOSE i \in DOMAIN result.steps : result.steps[i] = name
    ELSE 0

\* C21: load() runs transform() first; on an empty result it returns that
\* result unchanged without tagging, validation or projection; otherwise
\* data_source tagging precedes schema validation, validation precedes
\* column projection, projection is the last step before the return, and
\* nothing is returned after a failed validation.
C21_LoadStepOrder ==
    /\ result.steps # <<>> => result.steps[1] = "transform"
    /\ \A i, j \in DOMAIN result.steps : result.steps[i] = result.steps[j] => i = j
    /\ (result.pc \notin {"transform", "raised"} /\ FrameEmpty(result.transformed)) =>
           /\ result.returned
           /\ result.steps = <<"transform">>
           /\ LocalFrame = result.transformed
    /\ StepIndex("validate_schema") > 0 =>
           /\ StepIndex("tag_data_source") > 0
           /\ StepIndex("tag_data_source") < StepIndex("validate_schema")
    /\ StepIndex("select_columns") > 0 =>
           /\ StepIndex("validate_schema") > 0
           /\ StepIndex("validate_schema") < StepIndex("select_columns")
           /\ StepIndex("select_columns") = Len(result.steps)
           /\ result.returned
    /\ (result.returned /\ ~FrameEmpty(result.transformed)) =>
           /\ result.steps[Len(result.steps)] = "select_columns"
           /\ "data_source" \in result.cols
           /\ ~validate_dataframe(tag_data_source(generate_slugs(
                  apply_disease_aliases(result.transformed)), result.src))
    /\ result.raised => ~result.returned /\ result.pc = "raised"
    /\ result.pc = "validate_schema" => "data_source" \in result.cols
    /\ result.pc = "select_columns" => ~validate_dataframe(LocalFrame)
    /\ result.pc \in {"returned", "raised"} =>
           result.raised = load(transformer_transform(result.src), result.src).raised
    /\ result.pc = "returned" =>
           /\ result.rows = load(transformer_transform(result.src), result.src).rows
           /\ result.cols = load(transformer_transform(result.src), result.src).cols

C21_Witness ==
    /\ result.returned
    /\ result.src = <<"n", "n", "d", "s", "s">>
    /\ result.steps = <<"transform", "apply_disease_aliases", "generate_slugs",
                        "tag_data_source", "validate_schema", "select_columns">>
    /\ Len(result.rows) = 2

----------------------------------------------------------------------------
(* TrackerTransformer: columns of the output *)

FileOfPath(path) == CHOOSE f \in trackerFiles : PathOf(f) = path

\* <<file, index>> of the source rows in the order transform() emits them:
\* the selected files in their order, the files that could not be read left
\* out
RECURSIVE RowsInOrder(_)
RowsInOrder(paths) ==
    IF paths = <<>> THEN <<>>
    ELSE (IF ReadFails(FileOfPath(Head(paths))) THEN <<>>
          ELSE [i \in DOMAIN FileOfPath(Head(paths)).rows |->
                   <<FileOfPath(Head(paths)), i>>])
         \o RowsInOrder(Tail(paths))

\* the file the k-th emitted row was read from, and the row as the file has it
OriginFile(k) == RowsInOrder(result.selected)[k][1]

OriginRow(k) == OriginFile(k).rows[RowsInOrder(result.selected)[k][2]]

TrackerTransformed ==
    result.op = "transform" /\ result.src = <<"t", "r", "a", "c", "k", "e", "r">> /\ ~result.raised

\* C22: in the output of TrackerTransformer.transform(), every row read from
\* a file that has a state or a reporting_jurisdiction column carries both
\* fields: a field its file has keeps the file's value, a field its file
\* lacks is a copy of the other one.
C22_JurisdictionPairFilled ==
    TrackerTransformed =>
        \A k \in DOMAIN result.rows :
            /\ "state" \in OriginFile(k).cols =>
                   /\ result.rows[k]["state"] = OriginRow(k)["state"]
                   /\ result.rows[k]["reporting_jurisdiction"] =
                          IF "reporting_jurisdiction" \in OriginFile(k).cols
                          THEN OriginRow(k)["reporting_jurisdiction"]
                          ELSE OriginRow(k)["state"]
            /\ ("state" \notin OriginFile(k).cols
                /\ "reporting_jurisdiction" \in OriginFile(k).cols) =>
                   /\ result.rows[k]["reporting_jurisdiction"] =
                          OriginRow(k)["reporting_jurisdiction"]
                   /\ result.rows[k]["state"] = OriginRow(k)["reporting_jurisdiction"]

NullableTextColumns == {"age_group", "disease_subtype", "confirmation_status"}

\* the cell, lowercased and trimmed, is one of the placeholder texts
IsPlaceholder(x) ==
    /\ ~IsNa(x)
    /\ str_strip(str_lower(x.v), SpaceChars)
           \in { <<"n", "o", "t", " ", "s", "p", "e", "c", "i", "f", "i", "e", "d">>, <<"u", "n", "k", "n", "o", "w", "n">>, <<"n", "/", "a">>, <<"n", "a">>, <<>> }

\* C23: in the output of TrackerTransformer.transform(), an age_group,
\* disease_subtype or confirmation_status whose source value, lowercased and
\* trimmed, is "not specified", "unknown", "n/a", "na" or "" is null.
C23_PlaceholdersNull ==
    TrackerTransformed =>
        \A k \in DOMAIN result.rows :
            \A c \in NullableTextColumns :
                (c \in OriginFile(k).cols /\ IsPlaceholder(OriginRow(k)[c])) =>
                    IsNa(result.rows[k][c])

----------------------------------------------------------------------------
(* Disease names across sources *)

\* C24: in the table, a row whose source disease name is "Hansen's Disease"
\* has the same disease_name and the same disease_slug as a row whose source
\* disease name is "Leprosy (Hansen's Disease)", from whichever source the
\* two rows came.
C24_AliasMerged ==
    \A i, j \in DOMAIN db.disease_data :
        (/\ db.disease_data[i]["original_disease_name"] = Str(<<"H", "a", "n", "s", "e", "n", "'", "s", " ", "D", "i", "s", "e", "a", "s", "e">>)
         /\ db.disease_data[j]["original_disease_name"] =
                Str(<<"L", "e", "p", "r", "o", "s", "y", " ", "(", "H", "a", "n", "s", "e", "n", "'", "s", " ", "D", "i", "s", "e", "a", "s", "e", ")">>)) =>
            /\ db.disease_data[i]["disease_name"] = db.disease_data[j]["disease_name"]
            /\ db.disease_data[i]["disease_slug"] = db.disease_data[j]["disease_slug"]

\* the disease slugs stored in the table
StoredSlugs == {db.disease_data[i]["disease_slug"].v : i \in DOMAIN db.disease_data}

\* C25: every row in the table, from either source, stores the lowercase
\* canonical token (its slug) in disease_name, so two rows with equal
\* disease_slug have equal disease_name and get_disease_name_by_slug has a
\* single name to return for a slug.
C25_NameIsCanonicalToken ==
    /\ \A i \in DOMAIN db.disease_data :
           db.disease_data[i]["disease_name"] = db.disease_data[i]["disease_slug"]
    /\ \A i, j \in DOMAIN db.disease_data :
           db.disease_data[i]["disease_slug"] = db.disease_data[j]["disease_slug"] =>
               db.disease_data[i]["disease_name"] = db.disease_data[j]["disease_name"]
    /\ \A slug \in StoredSlugs :
           Cardinality(names_by_slug(db.disease_data, slug)) = 1

\* C26: every tracker row emitted by load() has disease_slug equal to
\* slugify(disease_name), and the slug load() stores is the slug the
\* transformer computed with slugify.
C26_TrackerSlugIsSlugify ==
    (result.op = "load" /\ result.src = <<"t", "r", "a", "c", "k", "e", "r">> /\ ~result.raised) =>
        \A i \in DOMAIN result.rows :
            /\ result.rows[i]["disease_slug"] = slugify(result.rows[i]["disease_name"])
            /\ result.rows[i]["disease_slug"] = Transformed.rows[i]["disease_slug"]

----------------------------------------------------------------------------
(* State-level results *)

\* the rows of the table read whose geo_unit is "state"
StateRows(rows) == SelectSeq(rows, LAMBDA r : r["geo_unit"] = Str(<<"s", "t", "a", "t", "e">>))

\* C27: the per-state totals get_state_case_totals returns are computed from
\* the geo_unit = "state" rows only: a row of any other geo_unit, such as a
\* tracker row whose CSV supplies its own geo_unit, adds nothing to them.
C27_StateTotalsFromStateRows ==
    \A t \in Threads :
        (/\ threads[t].call = "get_state_case_totals"
         /\ threads[t].executed > 0
         /\ threads[t].ret.status = "returned") =>
            threads[t].ret.val =
                get_state_case_totals(StateRows(threads[t].seen.rows), <<"m", "e", "a", "s", "l", "e", "s">>)

----------------------------------------------------------------------------
(* Slug columns of the emitted rows *)

\* <<dimension, its slug column>>
DimensionSlugColumns ==
    { <<"disease_name", "disease_slug">>,
      <<"disease_subtype", "disease_subtype_slug">>,
      <<"state", "state_slug">>,
      <<"reporting_jurisdiction", "reporting_jurisdiction_slug">>,
      <<"geo_name", "geo_name_slug">>,
      <<"geo_unit", "geo_unit_slug">>,
      <<"age_group", "age_group_slug">> }

\* C28: every row emitted by load() carries for each dimension (disease,
\* disease_subtype, state, reporting_jurisdiction, geo_name, geo_unit,
\* age_group) a slug column holding slugify of the dimension's value, null
\* when the dimension is null.
C28_EveryDimensionHasSlug ==
    (result.op = "load" /\ ~result.raised /\ result.rows # <<>>) =>
        \A d \in DimensionSlugColumns :
            /\ d[2] \in result.cols
            /\ \A i \in DOMAIN result.rows :
                   result.rows[i][d[2]] = slugify(result.rows[i][d[1]])

\* no other thread is inside load_all_sources
LoadsAlone(t) ==
    \A u \in Threads \ {t} :
        ~(threads[u].call = "load_all_sources" /\ threads[u].pc # "done")

\* C29: every call of load_all_sources that has returned performed the full
\* rebuild (it was not the early return), and while the files are still those
\* present at the call, disease_data holds exactly the rows of each source's
\* latest snapshot; also for a call made after an earlier load completed.
C29_EveryLoadRebuilds ==
    \A t \in Threads :
        (/\ threads[t].call = "load_all_sources"
         /\ threads[t].pc = "done"
         /\ threads[t].ret.status = "returned"
         /\ threads[t].snapshot = <<trackerFiles, nndssFiles>>
         /\ LoadsAlone(t)) =>
            /\ LoadCompleted(t)
            /\ db.disease_data = CompletedTable

\* the state directories whose latest file name belongs to an unreadable file
UnreadableStates == {f.dir : f \in {g \in LatestByName : ~g.readable}}

\* the latest files of the other state directories
LatestOfOtherStates == {f \in LatestByName : f.dir \notin UnreadableStates}

\* C30: the files are selected by name before any is read: a state whose
\* latest file cannot be read has that file selected and no older one, no
\* emitted row comes from a file of that state, and the output is the one
\* transform() gives when only the latest files of the other states exist.
C30_NoFallbackToOlderFile ==
    (/\ result.op = "transform"
     /\ result.src = <<"t", "r", "a", "c", "k", "e", "r">>
     /\ fs_exists(TRACKER_DATA_PATH)
     /\ UnreadableStates # {}) =>
        /\ ~result.raised
        /\ \A f \in trackerFiles :
               (f.dir \in UnreadableStates /\ f.readable) =>
                   \A k \in DOMAIN result.selected : result.selected[k] # PathOf(f)
        /\ \A f \in LatestByName :
               \E k \in DOMAIN result.selected : result.selected[k] = PathOf(f)
        /\ \A k \in DOMAIN result.rows : OriginFile(k).dir \notin UnreadableStates
        /\ Len(result.rows) = Cardinality(RowsOfFiles(
               {f \in LatestOfOtherStates : ~ReadFails(f)}))
        /\ result.rows = tracker_transform(LatestOfOtherStates).rows

C30_Witness ==
    /\ result.op = "transform"
    /\ result.src = <<"t", "r", "a", "c", "k", "e", "r">>
    /\ fs_exists(TRACKER_DATA_PATH)
    /\ \E f, g, h \in trackerFiles :
           /\ f.dir = g.dir /\ h.dir # f.dir
           /\ StrLt(g.name, f.name)
           /\ ~f.readable /\ g.readable /\ h.readable
           /\ f \in LatestByName
           /\ g.rows[1]["count"] = Num(10)
           /\ h.rows[1]["count"] = Num(5)
    /\ Len(result.rows) = 1
    /\ result.rows[1]["count"] = Num(5)

====
